---- MODULE Spec2Model ----
(***************************************************************************)
(* Claude plugin manager (Raycast extension): the catalog reconciliation   *)
(* engine, the scope-aware mutation executor, the TTL cache layer and the  *)
(* presentation handlers that drive them.                                  *)
(*                                                                         *)
(* Strings whose exact characters matter (names, plugin ids) are sequences *)
(* of one-character strings, so that trim() and concatenation are computed *)
(* rather than assumed.                                                    *)
(***************************************************************************)
EXTENDS Integers, Sequences, FiniteSets, TLC

VARIABLES
    \* ---- files on disk read by the catalog engine ----
    marketplacesFile,   \* known_marketplaces.json
    installedFile,      \* installed_plugins.json
    \* ---- catalog engine ----
    catalogPc,          \* "idle" | "done"
    allPlugins,         \* result of getAllAvailablePlugins
    installedResult,    \* result of getInstalledPlugins
    \* ---- mutation executor ----
    claudeCommandPath,  \* module variable set by initClaudePath
    claudePath,         \* preferences.claudePath as last passed to initClaudePath
    lastOp,             \* the executor operation called last, with its arguments
    execLog,            \* external invocations made by that operation, in order
    lastResult,         \* what that operation returned (or threw)
    batchRun,           \* the loop of an all-scopes batch, while it is followed step by step
    \* ---- earlier revision of the executor (tool discovery by probing) ----
    workingPaths,       \* environment: candidate commands whose --version succeeds
    whichOutput,        \* environment: stdout of `which claude`, or none on failure
    cachedClaudePath,   \* module variable memoizing findClaudePath
    probeLog,           \* commands run by the discovery of the last operation
    \* ---- TTL cache layer ----
    cache,              \* the Cache store: key -> absent | stored envelope | garbage
    now,                \* Date.now()
    dataVersion,        \* version of the on-disk data a fetcher reads
    inflight,           \* getCachedData calls suspended at `await fetcher()`
    story,              \* per key: what happened to it last (stored / invalidated)
    lastCall,           \* the getCachedData call started last, and what it found
    \* ---- presentation handlers ----
    uiRun               \* the handler run last: its inputs and the steps it took

catalogVars == <<marketplacesFile, installedFile, catalogPc, allPlugins, installedResult>>

execVars == <<claudeCommandPath, claudePath, lastOp, execLog, lastResult, batchRun>>

discoveryVars == <<workingPaths, whichOutput, cachedClaudePath, probeLog>>

cacheVars == <<cache, now, dataVersion, inflight, story, lastCall>>

uiVars == <<uiRun>>

vars == <<catalogVars, execVars, discoveryVars, cacheVars, uiVars>>

-----------------------------------------------------------------------------
(* Generic helpers *)

\* JavaScript's undefined: an absent field or argument.
NoValue == "undefined"

\* An absent string-valued field whose value would be a character sequence.
NoName == <<NoValue>>

SeqsUpTo(S, n) == UNION {[1..k -> S] : k \in 0..n}


\* Array.prototype.join over strings held as sequences of text pieces.
RECURSIVE Join(_, _)
Join(ss, sep) ==
    IF ss = <<>> THEN <<>>
    ELSE IF Len(ss) = 1 THEN ss[1]
    ELSE ss[1] \o <<sep>> \o Join(Tail(ss), sep)

-----------------------------------------------------------------------------
(* String.prototype.trim over character sequences *)

WhiteSpace == {" ", "\n", "\r", "\t"}

RECURSIVE TrimStart(_)
TrimStart(s) ==
    IF s = <<>> THEN s
    ELSE IF Head(s) \in WhiteSpace THEN TrimStart(Tail(s)) ELSE s

RECURSIVE TrimEnd(_)
TrimEnd(s) ==
    IF s = <<>> THEN s
    ELSE IF s[Len(s)] \in WhiteSpace THEN TrimEnd(SubSeq(s, 1, Len(s) - 1)) ELSE s

Trim(s) == TrimEnd(TrimStart(s))

-----------------------------------------------------------------------------
(* Bounds and input alphabets of the catalog engine *)

MaxMarkets == 2
MaxEntries == 2
MaxInstalled == 2

MarketNames == { <<"m", " ">>, <<"n">> }

\* A directory that does not exist.
NoListing == [state |-> "missing", entries |-> <<>>]

\* plugin.json without the optional fields (and without the required ones,
\* which a hand-written manifest may lack).
BareManifest ==
    [version |-> NoName, description |-> NoName, author |-> NoName, url |-> NoName]

\* A listing entry without version, description, author and homepage.
BareListing ==
    [version |-> NoName, description |-> NoName, author |-> NoName, homepage |-> NoName]

\* What lies at path.join(installLocation, entry.source): nothing, or a
\* plugin directory with its manifest and component directories.
NoPluginDir ==
    [exists |-> FALSE, manifest |-> "missing", commands |-> NoListing, skills |-> NoListing,
     agents |-> NoListing, hooks |-> NoListing, mcp |-> FALSE, meta |-> BareManifest]

\* A plugin directory with a manifest and one command.
PlainPluginDir ==
    [exists |-> TRUE, manifest |-> "ok",
     commands |-> [state |-> "ok", entries |-> << <<"c", ".", "m", "d">> >>],
     skills |-> NoListing, agents |-> NoListing, hooks |-> NoListing, mcp |-> TRUE,
     meta |-> BareManifest]

\* typeof entry.source: a path string, or a PluginSource object of kind
\* url, github or git.
SourceKinds == {"string", "url", "github", "git"}

\* Listing entries (MarketplacePluginEntry): name may be absent in a
\* malformed listing; dir is what the disk holds where the plugin would be.
EntryChoices ==
    { [name |-> <<"a">>,           source |-> "string", dir |-> PlainPluginDir,
       listed |-> BareListing],
      [name |-> <<" ", "a", " ">>, source |-> "github", dir |-> PlainPluginDir,
       listed |-> BareListing],
      [name |-> <<"b">>,           source |-> "string", dir |-> NoPluginDir,
       listed |-> BareListing],
      [name |-> NoName,            source |-> "url",    dir |-> NoPluginDir,
       listed |-> BareListing] }

\* marketplace.json under installLocation/.claude-plugin
ManifestChoices ==
    { [status |-> "missing",    plugins |-> <<>>],
      [status |-> "unparsable", plugins |-> <<>>],
      [status |-> "noplugins",  plugins |-> <<>>] }
    \cup { [status |-> "ok", plugins |-> es] : es \in SeqsUpTo(EntryChoices, MaxEntries) }

\* One installation entry of installed_plugins.json, flattened with its key.
InstalledChoices ==
    { [pluginId |-> <<"a", "@", "m">>,      scope |-> "user",
       enabled |-> NoValue, projectPath |-> NoValue],
      [pluginId |-> <<"a", "@", "m">>,      scope |-> "project",
       enabled |-> "false", projectPath |-> "/p"],
      [pluginId |-> <<"a", "@", "m", " ">>, scope |-> "user",
       enabled |-> "true",  projectPath |-> NoValue],
      [pluginId |-> <<"b", "@", "n">>,      scope |-> "local",
       enabled |-> "true",  projectPath |-> "/p"] }

\* Object keys are unique: the installations of one pluginId are contiguous.
Contiguous(rs) ==
    \A i, j \in 1..Len(rs) :
        (i < j /\ rs[i].pluginId = rs[j].pluginId)
            => \A k \in i..j : rs[k].pluginId = rs[i].pluginId

InstalledFiles ==
    { [status |-> "missing",    records |-> <<>>],
      [status |-> "unparsable", records |-> <<>>] }
    \cup { [status |-> "ok", records |-> rs] :
             rs \in {r \in SeqsUpTo(InstalledChoices, MaxInstalled) : Contiguous(r)} }

\* Object keys are unique: no two registry entries share a name.
DistinctNames(ms) ==
    \A i, j \in 1..Len(ms) : i # j => ms[i].name # ms[j].name

MarketplacesFiles ==
    { [status |-> "missing",    entries |-> <<>>],
      [status |-> "unparsable", entries |-> <<>>] }
    \cup { [status |-> "ok", entries |-> ms] :
             ms \in {m \in SeqsUpTo([name : MarketNames, manifest : ManifestChoices],
                                    MaxMarkets) : DistinctNames(m)} }

-----------------------------------------------------------------------------
(* Local registry readers *)

getInstalledPlugins ==
    IF installedFile.status # "ok" THEN <<>> ELSE installedFile.records

getMarketplaces ==
    IF marketplacesFile.status # "ok" THEN <<>> ELSE marketplacesFile.entries

\* null when the file is missing or does not parse.
readMarketplaceManifest(marketplace) ==
    IF marketplace.manifest.status \in {"missing", "unparsable"}
    THEN [status |-> "null", plugins |-> <<>>]
    ELSE marketplace.manifest

\* A lookup that does not ask what type the source has.
resolvePluginPathAnySource(marketplace, entry) ==
    IF entry.dir.exists THEN "path" ELSE NoValue

\* Only a string source is joined to a path and looked up on disk.
resolvePluginPath(marketplace, entry) ==
    IF entry.source = "string" /\ entry.dir.exists THEN "path" ELSE NoValue

\* The file-system accesses made for one listing entry.
EntryReads(entry, pluginPath) ==
    (IF entry.source = "string" THEN <<"existsSync(pluginPath)">> ELSE <<>>)
        \o (IF pluginPath # NoValue THEN <<"parsePluginMetadata(pluginPath)">> ELSE <<>>)

-----------------------------------------------------------------------------
(* Plugin directories: component inventories and the plugin manifest *)

\* s.endsWith(suffix)
EndsWith(s, suffix) ==
    /\ Len(s) >= Len(suffix)
    /\ SubSeq(s, Len(s) - Len(suffix) + 1, Len(s)) = suffix

\* s.startsWith(prefix)
StartsWith(s, prefix) ==
    /\ Len(s) >= Len(prefix)
    /\ SubSeq(s, 1, Len(prefix)) = prefix

MdExt == <<".", "m", "d">>

ShExt == <<".", "s", "h">>

IsComponentFile(f) == EndsWith(f, MdExt) \/ EndsWith(f, ShExt)

\* f.replace(/\.(md|sh)$/, "")
StripExt(f) == IF IsComponentFile(f) THEN SubSeq(f, 1, Len(f) - Len(MdExt)) ELSE f

\* { count, names }
Inventory(names) == [count |-> Len(names), names |-> names]

\* getComponentFiles(dir): readdirSync throws on something that is not a
\* readable directory.
getComponentFiles(dir) ==
    IF dir.state # "ok" THEN Inventory(<<>>)
    ELSE LET kept == SelectSeq(dir.entries, IsComponentFile)
         IN  Inventory([i \in 1..Len(kept) |-> StripExt(kept[i])])

\* getHooks(pluginPath): the keys of hooks/hooks.json.
getHooks(hooks) ==
    IF hooks.state # "ok" THEN Inventory(<<>>) ELSE Inventory(hooks.entries)

\* The first index at or after i of a line that starts with "---", or 0.
RECURSIVE ClosingLine(_, _)
ClosingLine(lines, i) ==
    IF i > Len(lines) THEN 0
    ELSE IF StartsWith(lines[i], <<"-", "-", "-">>) THEN i
    ELSE ClosingLine(lines, i + 1)

\* The index of the first ":" of a line, or 0 (indexOf + 1).
RECURSIVE ColonIndex(_, _)
ColonIndex(line, i) ==
    IF i > Len(line) THEN 0
    ELSE IF line[i] = ":" THEN i
    ELSE ColonIndex(line, i + 1)

\* Strip one pair of surrounding double or single quotes.
Unquote(value) ==
    IF \E q \in {"\"", "'"} : StartsWith(value, <<q>>) /\ EndsWith(value, <<q>>)
    THEN SubSeq(value, 2, Len(value) - 1)
    ELSE value

\* The value the frontmatter lines give to `key`; a later line overrides an
\* earlier one. NoName when no line sets it.
RECURSIVE FrontmatterValue(_, _, _)
FrontmatterValue(lines, key, acc) ==
    IF lines = <<>> THEN acc
    ELSE LET line  == Head(lines)
             colon == ColonIndex(line, 1)
             found == /\ colon > 1
                      /\ Trim(SubSeq(line, 1, colon - 1)) = key
         IN  FrontmatterValue(Tail(lines), key,
                              IF found
                              THEN Unquote(Trim(SubSeq(line, colon + 1, Len(line))))
                              ELSE acc)

\* parseYamlFrontmatter(content).name, with content held as its lines:
\* /^---\r?\n([\s\S]*?)\r?\n---/ needs a first line "---" and a later line
\* that starts with "---", at least one line further down.
FrontmatterName(lines) ==
    IF Len(lines) < 3 \/ Head(lines) \notin {<<"-", "-", "-">>, <<"-", "-", "-", "\r">>}
    THEN NoName
    ELSE LET close == ClosingLine(lines, 3)
         IN  IF close = 0 THEN NoName
             ELSE FrontmatterValue(SubSeq(lines, 2, close - 1), <<"n", "a", "m", "e">>, NoName)

\* extractSkillName: frontmatter?.name || fallbackName
extractSkillName(skillMd, fallbackName) ==
    LET name == FrontmatterName(skillMd.lines)
    IN  IF name = NoName \/ name = <<>> THEN fallbackName ELSE name

\* The loop of getSkillsFromDirectory; readFileSync of a descriptor that
\* exists but cannot be read throws out of the loop.
RECURSIVE SkillNames(_, _)
SkillNames(entries, names) ==
    IF entries = <<>> THEN [threw |-> FALSE, names |-> names]
    ELSE LET e == Head(entries)
         IN  IF e.type = "dir"
             THEN IF e.skillMd.state = "missing" THEN SkillNames(Tail(entries), names)
                  ELSE IF e.skillMd.state = "unreadable"
                  THEN [threw |-> TRUE, names |-> names]
                  ELSE SkillNames(Tail(entries),
                                  Append(names, extractSkillName(e.skillMd, e.name)))
             ELSE IF e.type = "file" /\ IsComponentFile(e.name)
             THEN SkillNames(Tail(entries), Append(names, StripExt(e.name)))
             ELSE SkillNames(Tail(entries), names)

\* getSkillsFromDirectory(dir): any throw inside gives the empty inventory.
getSkillsFromDirectory(dir) ==
    IF dir.state # "ok" THEN Inventory(<<>>)
    ELSE LET run == SkillNames(dir.entries, <<>>)
         IN  IF run.threw THEN Inventory(<<>>) ELSE Inventory(run.names)

\* `{}`: an object without keys.
EmptyObject == [k \in {} |-> 0]

\* parsePluginMetadata without a result (null).
NoMetadata ==
    [isNull |-> TRUE, components |-> EmptyObject, version |-> NoName,
     description |-> NoName, author |-> NoName, repositoryUrl |-> NoName]

\* A JavaScript value that counts as true: neither undefined nor "".
Truthy(v) == v # NoName /\ v # <<>>

\* url.replace(/^git\+/, "").replace(/\.git$/, ""), the url held as its
\* pieces: an optional "git+", the address, an optional ".git".
RepositoryUrl(url) ==
    IF ~Truthy(url) THEN NoName
    ELSE LET noPrefix == IF Head(url) = "git+" THEN Tail(url) ELSE url
         IN  IF noPrefix # <<>> /\ noPrefix[Len(noPrefix)] = ".git"
             THEN SubSeq(noPrefix, 1, Len(noPrefix) - 1)
             ELSE noPrefix

\* parsePluginMetadata(pluginPath): null without a readable plugin.json.
parsePluginMetadata(dir) ==
    IF dir.manifest # "ok" THEN NoMetadata
    ELSE [isNull |-> FALSE,
          components |-> [commands |-> getComponentFiles(dir.commands),
                          skills   |-> getSkillsFromDirectory(dir.skills),
                          agents   |-> getComponentFiles(dir.agents),
                          hooks    |-> getHooks(dir.hooks),
                          mcp      |-> dir.mcp],
          version       |-> dir.meta.version,
          description   |-> dir.meta.description,
          author        |-> dir.meta.author,
          repositoryUrl |-> RepositoryUrl(dir.meta.url)]

-----------------------------------------------------------------------------
(* Catalog reconciliation engine *)

\* The part of a plugin id before its "@".
RECURSIVE BeforeAt(_)
BeforeAt(id) ==
    IF id = <<>> \/ Head(id) = "@" THEN <<>> ELSE <<Head(id)>> \o BeforeAt(Tail(id))

\* Records matched by the plugin's name alone, whatever their marketplace.
InstallationsByNameOnly(installedPlugins, pluginId) ==
    LET matching == SelectSeq(installedPlugins,
                              LAMBDA p : BeforeAt(p.pluginId) = BeforeAt(pluginId))
    IN  [i \in 1..Len(matching) |->
            [scope       |-> matching[i].scope,
             enabled     |-> IF matching[i].enabled = NoValue THEN TRUE
                             ELSE matching[i].enabled = "true",
             projectPath |-> matching[i].projectPath]]

\* The stored field copied as it is, also when it is absent.
InstallationsNoDefault(installedPlugins, pluginId) ==
    LET matching == SelectSeq(installedPlugins, LAMBDA p : p.pluginId = pluginId)
    IN  [i \in 1..Len(matching) |->
            [scope       |-> matching[i].scope,
             enabled     |-> matching[i].enabled = "true",
             projectPath |-> matching[i].projectPath]]

\* installedPlugins.filter(p => p.pluginId === pluginId).map(...)
Installations(installedPlugins, pluginId) ==
    LET matching == SelectSeq(installedPlugins, LAMBDA p : p.pluginId = pluginId)
    IN  [i \in 1..Len(matching) |->
            [scope       |-> matching[i].scope,
             enabled     |-> IF matching[i].enabled = NoValue THEN TRUE
                             ELSE matching[i].enabled = "true",
             projectPath |-> matching[i].projectPath]]

\* if (pluginPath) detailedMetadata = await parsePluginMetadata(pluginPath)
DetailedMetadata(entry, pluginPath) ==
    IF pluginPath # NoValue THEN parsePluginMetadata(entry.dir) ELSE NoMetadata

\* a || b with the operands the other way round.
OrElseSecondFirst(a, b) == IF Truthy(b) THEN b ELSE a

\* a || b
OrElse(a, b) == IF Truthy(a) THEN a ELSE b

\* The plugin id built from the raw names, without trim().
BuildPluginNoTrim(marketplace, entry, installedPlugins) ==
    LET pluginId   == entry.name \o <<"@">> \o marketplace.name
        pluginPath == resolvePluginPath(marketplace, entry)
        detailedMetadata == DetailedMetadata(entry, pluginPath)
    IN  [name            |-> entry.name,
         marketplace     |-> marketplace.name,
         version         |-> OrElse(OrElse(entry.listed.version, detailedMetadata.version),
                                    <<"unknown">>),
         description     |-> OrElse(OrElse(entry.listed.description,
                                           detailedMetadata.description), <<>>),
         author          |-> OrElse(entry.listed.author, detailedMetadata.author),
         repositoryUrl   |-> OrElse(entry.listed.homepage, detailedMetadata.repositoryUrl),
         marketplacePath |-> pluginPath,
         components      |-> detailedMetadata.components,
         reads           |-> EntryReads(entry, pluginPath),
         installations   |-> Installations(installedPlugins, pluginId)]

BuildPlugin(marketplace, entry, installedPlugins) ==
    LET pluginId   == Trim(entry.name) \o <<"@">> \o Trim(marketplace.name)
        pluginPath == resolvePluginPath(marketplace, entry)
        detailedMetadata == DetailedMetadata(entry, pluginPath)
    IN  [name            |-> entry.name,
         marketplace     |-> marketplace.name,
         version         |-> OrElse(OrElse(entry.listed.version, detailedMetadata.version),
                                    <<"unknown">>),
         description     |-> OrElse(OrElse(entry.listed.description,
                                           detailedMetadata.description), <<>>),
         author          |-> OrElse(entry.listed.author, detailedMetadata.author),
         repositoryUrl   |-> OrElse(entry.listed.homepage, detailedMetadata.repositoryUrl),
         marketplacePath |-> pluginPath,
         components      |-> detailedMetadata.components,
         reads           |-> EntryReads(entry, pluginPath),
         installations   |-> Installations(installedPlugins, pluginId)]

\* The inner loop with each Plugin put in front of the list.
RECURSIVE ProcessEntriesNewestFirst(_, _, _, _)
ProcessEntriesNewestFirst(marketplace, entries, installedPlugins, acc) ==
    IF entries = <<>> THEN acc
    ELSE IF Head(entries).name = NoName THEN acc
    ELSE ProcessEntriesNewestFirst(marketplace, Tail(entries), installedPlugins,
                        <<BuildPlugin(marketplace, Head(entries), installedPlugins)>> \o acc)

\* The inner loop over manifest.plugins: entry.name.trim() throws on an
\* entry without a name, which leaves the loop; what was pushed stays.
RECURSIVE ProcessEntries(_, _, _, _)
ProcessEntries(marketplace, entries, installedPlugins, acc) ==
    IF entries = <<>> THEN acc
    ELSE IF Head(entries).name = NoName THEN acc
    ELSE ProcessEntries(marketplace, Tail(entries), installedPlugins,
                        Append(acc, BuildPlugin(marketplace, Head(entries), installedPlugins)))

\* One iteration of the loop over marketplaces (try ... catch inside).
ProcessMarketplace(marketplace, installedPlugins, acc) ==
    LET manifest == readMarketplaceManifest(marketplace)
    IN  IF manifest.status = "null" THEN acc
        ELSE IF manifest.status = "noplugins" THEN acc
        ELSE ProcessEntries(marketplace, manifest.plugins, installedPlugins, acc)

\* The loop with "return" where the code has "continue".
RECURSIVE ProcessMarketplacesBreak(_, _, _)
ProcessMarketplacesBreak(marketplaces, installedPlugins, acc) ==
    IF marketplaces = <<>> THEN acc
    ELSE IF readMarketplaceManifest(Head(marketplaces)).status \in {"null", "noplugins"}
    THEN acc
    ELSE ProcessMarketplacesBreak(Tail(marketplaces), installedPlugins,
                                  ProcessMarketplace(Head(marketplaces), installedPlugins, acc))

RECURSIVE ProcessMarketplaces(_, _, _)
ProcessMarketplaces(marketplaces, installedPlugins, acc) ==
    IF marketplaces = <<>> THEN acc
    ELSE ProcessMarketplaces(Tail(marketplaces), installedPlugins,
                             ProcessMarketplace(Head(marketplaces), installedPlugins, acc))

\* A catalog build that gives up when the installed-plugin registry cannot
\* be read.
getAllAvailablePluginsNeedsRegistry ==
    IF installedFile.status # "ok" THEN <<>>
    ELSE ProcessMarketplaces(getMarketplaces, getInstalledPlugins, <<>>)

getAllAvailablePlugins ==
    ProcessMarketplaces(getMarketplaces, getInstalledPlugins, <<>>)

CatalogStart ==
    /\ catalogPc = "idle"
    /\ allPlugins = <<>>
    /\ installedResult = <<>>

\* null, as a value of a variable that otherwise holds a character sequence.
NullPath == <<"null">>

\* initClaudePath has not been called yet (useClaudeConfig not mounted).
NeverInitialised == <<"never">>

NoOp == [op |-> "none"]

NoResult == [kind |-> "none"]

\* No batch is being followed step by step.
NoBatch == [next |-> 0]

ExecStart ==
    /\ claudeCommandPath = NullPath
    /\ claudePath = NeverInitialised
    /\ batchRun = NoBatch
    /\ lastOp = NoOp
    /\ execLog = <<>>
    /\ lastResult = NoResult

\* cachedClaudePath before the first lookup (undefined, not null).
Unset == NoName

DiscoveryStart ==
    /\ cachedClaudePath = Unset
    /\ probeLog = <<>>

DiscoveryIdle ==
    /\ workingPaths = {}
    /\ whichOutput = NoName
    /\ DiscoveryStart

\* The three fixed keys of the cache.
ALL_PLUGINS == "all-plugins"

MARKETPLACES == "marketplaces"

INSTALLED_PLUGINS == "installed-plugins"

CACHE_KEYS == {ALL_PLUGINS, MARKETPLACES, INSTALLED_PLUGINS}

\* Cache.get returns undefined for a key that is not stored.
Absent == [state |-> "absent", value |-> 0, timestamp |-> 0]

\* A stored string that JSON.parse rejects.
Garbage == [state |-> "garbage", value |-> 0, timestamp |-> 0]

\* JSON.stringify({value, timestamp})
Envelope(value, timestamp) ==
    [state |-> "stored", value |-> value, timestamp |-> timestamp]

\* at = -1: the key has never been stored. bystander: another key was
\* invalidated since this key was stored.
NoStory == [event |-> "none", value |-> 0, at |-> -1, bystander |-> FALSE]

NoCall == [key |-> "none"]

CacheStart ==
    /\ cache = [k \in CACHE_KEYS |-> Absent]
    /\ now = 0
    /\ dataVersion = 0
    /\ inflight = <<>>
    /\ story = [k \in CACHE_KEYS |-> NoStory]
    /\ lastCall = NoCall

\* No handler is running.
NoRun == [handler |-> "none"]

UiStart == uiRun = NoRun

InitCatalog ==
    /\ marketplacesFile \in MarketplacesFiles
    /\ installedFile \in InstalledFiles
    /\ CatalogStart
    /\ ExecStart
    /\ UiStart
    /\ DiscoveryIdle
    /\ CacheStart

GetAllAvailablePlugins ==
    /\ catalogPc = "idle"
    /\ allPlugins' = getAllAvailablePlugins
    /\ installedResult' = getInstalledPlugins
    /\ catalogPc' = "done"
    /\ UNCHANGED <<marketplacesFile, installedFile>>
    /\ UNCHANGED <<execVars, discoveryVars, cacheVars, uiVars>>

NextCatalog == GetAllAvailablePlugins

SpecCatalog == InitCatalog /\ [][NextCatalog]_vars

-----------------------------------------------------------------------------
(* The catalog engine on one marketplace with one listing entry, over the  *)
(* kinds of source and the contents of the plugin directory.               *)

MaxSkillEntries == 2

\* SKILL.md of a skill subdirectory: its lines, and the name its
\* front-matter declares (none when it declares no name).
SkillMdChoices ==
    { [state |-> "missing", lines |-> <<>>, declares |-> NoName],
      [state |-> "unreadable", lines |-> <<>>, declares |-> NoName],
      [state |-> "ok", declares |-> <<"k">>,
       lines |-> << <<"-", "-", "-">>, <<"n", "a", "m", "e", ":", " ", "k">>,
                    <<"a", ":">>, <<" ", " ", "n", "a", "m", "e", ":", " ", "j">>,
                    <<"-", "-", "-">> >>],
      [state |-> "ok", declares |-> <<"k">>,
       lines |-> << <<"-", "-", "-">>, <<"n", "a", "m", "e", ":", " ", "k">>,
                    <<"-", "-", "-">>, <<"#", " ", "t">> >>],
      [state |-> "ok", declares |-> <<"k">>,
       lines |-> << <<"-", "-", "-", "\r">>,
                    <<"d", ":", " ", "x", "\r">>,
                    <<"n", "a", "m", "e", ":", " ", "\"", "k", "\"", "\r">>,
                    <<"-", "-", "-", "\r">> >>],
      [state |-> "ok", declares |-> <<>>,
       lines |-> << <<"-", "-", "-">>, <<"n", "a", "m", "e", ":">>, <<"-", "-", "-">> >>],
      [state |-> "ok", declares |-> NoName,
       lines |-> << <<"-", "-", "-">>, <<"d", ":", " ", "x">>, <<"-", "-", "-">> >>],
      [state |-> "ok", declares |-> NoName,
       lines |-> << <<"#", " ", "t">>, <<"n", "a", "m", "e", ":", " ", "k">> >>] }

\* The entries of a skills directory (Dirent): subdirectories, flat files
\* and entries that are neither (a socket, a dangling link).
SkillEntryChoices ==
    { [type |-> "dir", name |-> <<"s">>, skillMd |-> md] : md \in SkillMdChoices }
    \cup { [type |-> "file", name |-> n,
             skillMd |-> CHOOSE md \in SkillMdChoices : md.state = "missing"] :
             n \in { <<"f", ".", "m", "d">>, <<"r", ".", "s", "h">>, <<"n", ".", "t", "x", "t">> } }
    \cup { [type |-> "other", name |-> <<"f", ".", "m", "d">>,
             skillMd |-> CHOOSE md \in SkillMdChoices : md.state = "missing"] }

SkillsDirChoices ==
    { NoListing, [state |-> "unreadable", entries |-> <<>>] }
    \cup { [state |-> "ok", entries |-> es] : es \in SeqsUpTo(SkillEntryChoices, MaxSkillEntries) }

\* The skills directory of the example: a subdirectory whose descriptor
\* declares a name, and one flat file.
ExampleSkillsDir ==
    [state |-> "ok",
     entries |-> << CHOOSE e \in SkillEntryChoices :
                        e.type = "dir" /\ e.skillMd.state = "ok"
                            /\ Len(e.skillMd.lines) = 4 /\ Len(e.skillMd.lines[1]) = 3,
                    [type |-> "file", name |-> <<"f", ".", "m", "d">>,
                     skillMd |-> CHOOSE md \in SkillMdChoices : md.state = "missing"] >>]

FileListingChoices ==
    { NoListing,
      [state |-> "ok", entries |-> << <<"c", ".", "m", "d">>, <<"n", ".", "t", "x", "t">>,
                                      <<"d", ".", "s", "h">> >>] }

HooksChoices ==
    { NoListing, [state |-> "unparsable", entries |-> <<>>],
      [state |-> "ok", entries |-> << <<"h">> >>] }

\* Plugin directories: every combination of manifest and components with
\* the example's skills, and every skills directory beside a plain rest.
PluginDirChoices ==
    { NoPluginDir }
    \cup { [exists |-> TRUE, manifest |-> m, commands |-> c, skills |-> s, agents |-> NoListing,
            hooks |-> h, mcp |-> x, meta |-> BareManifest] :
              m \in {"missing", "unparsable", "ok"}, c \in FileListingChoices,
              s \in {NoListing, ExampleSkillsDir}, h \in HooksChoices, x \in BOOLEAN }
    \cup { [PlainPluginDir EXCEPT !.skills = s] : s \in SkillsDirChoices }

OneEntryChoices ==
    [name : { <<"a">>, <<" ", "a", " ">> }, source : SourceKinds, dir : PluginDirChoices,
     listed : {BareListing}]

InitEntry ==
    /\ \E entry \in OneEntryChoices :
          marketplacesFile =
              [status |-> "ok",
               entries |-> << [name |-> <<"m">>,
                               manifest |-> [status |-> "ok", plugins |-> <<entry>>]] >>]
    /\ installedFile \in {f \in InstalledFiles : Len(f.records) <= 1}
    /\ CatalogStart
    /\ ExecStart
    /\ UiStart
    /\ DiscoveryIdle
    /\ CacheStart

SpecEntry == InitEntry /\ [][NextCatalog]_vars

-----------------------------------------------------------------------------
(* The catalog engine on one listing entry, over what the listing and the  *)
(* plugin manifest say about version, description, author and repository.  *)

\* The optional fields of a listing entry: absent, empty, or given.
ListingChoices ==
    [version : {NoName, <<>>, <<"L">>}, description : {NoName, <<>>, <<"L">>},
     author : {NoName, <<"L">>}, homepage : {NoName, <<>>, <<"L">>}]

\* The fields of plugin.json; the repository url with and without the
\* "git+" prefix and the ".git" suffix.
PluginManifestChoices ==
    [version : {NoName, <<"M">>}, description : {NoName, <<"M">>},
     author : {NoName, <<"M">>},
     url : {NoName, <<"git+", "u", ".git">>, <<"u">>}]

MergeDirChoices ==
    { NoPluginDir, [PlainPluginDir EXCEPT !.manifest = "unparsable"] }
    \cup { [PlainPluginDir EXCEPT !.meta = meta] : meta \in PluginManifestChoices }

MergeEntryChoices ==
    [name : { <<"a">> }, source : {"string", "github"}, dir : MergeDirChoices,
     listed : ListingChoices]

InitMerge ==
    /\ \E entry \in MergeEntryChoices :
          marketplacesFile =
              [status |-> "ok",
               entries |-> << [name |-> <<"m">>,
                               manifest |-> [status |-> "ok", plugins |-> <<entry>>]] >>]
    /\ installedFile = [status |-> "missing", records |-> <<>>]
    /\ CatalogStart
    /\ ExecStart
    /\ UiStart
    /\ DiscoveryIdle
    /\ CacheStart

SpecMerge == InitMerge /\ [][NextCatalog]_vars

-----------------------------------------------------------------------------
(* Scope-aware mutation executor: inputs *)

MaxBatch == 3

Scopes == {"user", "project", "local"}

PluginVerbs == {"install", "uninstall", "enable", "disable", "update"}

BatchVerbs == {"update", "uninstall"}

\* Plugin ids as the callers pass them; trim() is applied by the executor.
PluginNameInputs == { <<"a", "@", "m">>, <<" ", "a", "@", "m", " ">> }

ProjectPathInputs == {NoValue, "/p"}

\* The {scope, projectPath} elements of a batch's installations argument.
InstallationArgs ==
    { [scope |-> "user",    projectPath |-> NoValue],
      [scope |-> "project", projectPath |-> "/p"],
      [scope |-> "local",   projectPath |-> NoValue] }

\* What execSync can do: return the tool's output, or throw an Error whose
\* message reports a non-zero exit or that the command was not found.
ExecOutcomes ==
    { [ok |-> TRUE,  text |-> "stdout"],
      [ok |-> FALSE, text |-> "Command failed"],
      [ok |-> FALSE, text |-> "command not found"] }

\* Arguments of initClaudePath: undefined, empty, blank, and real paths.
PathInputs ==
    { NoName, <<>>, <<" ">>, <<"~", "/", "c">>, <<" ", "/", "c", " ">> }

HomeDir == <<"/", "h">>

\* The working directory a child process inherits when no cwd is given.
InheritedCwd == "inherited"

-----------------------------------------------------------------------------
(* Scope-aware mutation executor: operations *)

\* path.trim() without the replace.
ExpandPathKeepTilde(path) == Trim(path)

\* path.trim().replace(/^~/, homedir())
ExpandPath(path) ==
    LET t == Trim(path)
    IN  IF t # <<>> /\ Head(t) = "~" THEN HomeDir \o Tail(t) ELSE t

InitClaudePath(path) ==
    /\ claudeCommandPath' =
          IF path # NoName /\ Trim(path) # <<>> THEN ExpandPath(path) ELSE NullPath
    /\ claudePath' = path
    /\ UNCHANGED <<lastOp, execLog, lastResult, batchRun>>

getClaudeCommand ==
    IF claudeCommandPath # NullPath THEN claudeCommandPath ELSE <<"claude">>

\* { ...execOptions, ...(scope is local/project && projectPath ? {cwd} : {}) }
ExecCwd(scope, projectPath) ==
    IF scope \in {"local", "project"} /\ projectPath # NoValue
    THEN projectPath
    ELSE InheritedCwd

\* One execSync call of `<claude> plugin <verb> "<name>" --scope <scope>`.
Invocation(verb, pluginName, scope, cwd, outcome) ==
    [command |-> getClaudeCommand,
     verb    |-> verb,
     target  |-> Trim(pluginName),
     scope   |-> scope,
     cwd     |-> cwd,
     outcome |-> outcome]

Returned(success, output, hasError, error) ==
    [kind |-> "returned", success |-> success, output |-> output,
     hasError |-> hasError, error |-> error]

\* try { return {success: true, output} } catch { return {success: false, ...} }
SingleResult(outcome) ==
    IF outcome.ok
    THEN Returned(TRUE, <<outcome.text>>, FALSE, <<>>)
    ELSE Returned(FALSE, <<>>, TRUE, <<outcome.text>>)

\* installPlugin(pluginName, scope): the function has no projectPath
\* parameter, so what the caller holds for it never reaches execSync.
InstallPlugin(pluginName, scope, projectPath, outcome) ==
    /\ lastOp' = [op |-> "single", verb |-> "install", pluginName |-> pluginName,
                  scope |-> scope, projectPath |-> projectPath]
    /\ execLog' = <<Invocation("install", pluginName, scope, InheritedCwd, outcome)>>
    /\ lastResult' = SingleResult(outcome)
    /\ UNCHANGED <<claudeCommandPath, claudePath, batchRun>>

\* uninstallPlugin, enablePlugin, disablePlugin, updatePlugin
ScopedPluginOp(verb, pluginName, scope, projectPath, outcome) ==
    /\ verb \in PluginVerbs \ {"install"}
    /\ lastOp' = [op |-> "single", verb |-> verb, pluginName |-> pluginName,
                  scope |-> scope, projectPath |-> projectPath]
    /\ execLog' = <<Invocation(verb, pluginName, scope,
                               ExecCwd(scope, projectPath), outcome)>>
    /\ lastResult' = SingleResult(outcome)
    /\ UNCHANGED <<claudeCommandPath, claudePath, batchRun>>

\* The per-scope lines pushed to results / errors.
SuccessLine(verb, scope, output) ==
    IF verb = "update"
    THEN <<"Updated in ", scope, " scope: ", output>>
    ELSE <<"Uninstalled from ", scope, " scope: ", output>>

FailureLine(verb, scope, errorMsg) ==
    IF verb = "update"
    THEN <<"Failed to update in ", scope, " scope: ", errorMsg>>
    ELSE <<"Failed to uninstall from ", scope, " scope: ", errorMsg>>

\* The loop with the try/catch around the whole loop: the first failure ends it.
RECURSIVE BatchLoopStopOnError(_, _, _, _, _)
BatchLoopStopOnError(verb, pluginName, installations, outcomes, acc) ==
    IF installations = <<>> THEN acc
    ELSE
        LET inst == Head(installations)
            out  == Head(outcomes)
            call == Invocation(verb, pluginName, inst.scope,
                               ExecCwd(inst.scope, inst.projectPath), out)
        IN  IF out.ok
            THEN BatchLoopStopOnError(verb, pluginName, Tail(installations), Tail(outcomes),
                    [log     |-> Append(acc.log, call),
                     results |-> Append(acc.results, SuccessLine(verb, inst.scope, out.text)),
                     errors  |-> acc.errors])
            ELSE [log     |-> Append(acc.log, call),
                  results |-> acc.results,
                  errors  |-> Append(acc.errors, FailureLine(verb, inst.scope, out.text))]

\* The loop of a batch: one invocation per installation, in order, each
\* in its own try/catch. acc = [log, results, errors].
RECURSIVE BatchLoop(_, _, _, _, _)
BatchLoop(verb, pluginName, installations, outcomes, acc) ==
    IF installations = <<>> THEN acc
    ELSE
        LET inst == Head(installations)
            out  == Head(outcomes)
            call == Invocation(verb, pluginName, inst.scope,
                               ExecCwd(inst.scope, inst.projectPath), out)
        IN  BatchLoop(verb, pluginName, Tail(installations), Tail(outcomes),
                [log     |-> Append(acc.log, call),
                 results |-> IF out.ok
                             THEN Append(acc.results, SuccessLine(verb, inst.scope, out.text))
                             ELSE acc.results,
                 errors  |-> IF out.ok
                             THEN acc.errors
                             ELSE Append(acc.errors, FailureLine(verb, inst.scope, out.text))])

\* The aggregate rule with any failure reported as a failed batch.
AggregateAnyFailureFails(results, errors, n) ==
    IF Len(errors) > 0
    THEN Returned(FALSE, Join(results, "\n"), TRUE, Join(errors, "\n"))
    ELSE Returned(TRUE, Join(results, "\n"), FALSE, <<>>)

\* The aggregate rule without its last branch: the Warnings block is
\* appended whenever the batch did not fail as a whole.
AggregateAlwaysWarns(results, errors, n) ==
    IF Len(errors) = n
    THEN Returned(FALSE, Join(results, "\n"), TRUE, Join(errors, "\n"))
    ELSE Returned(TRUE,
                  Join(results, "\n") \o <<"\n\nWarnings:\n">> \o Join(errors, "\n"),
                  FALSE, <<>>)

\* The aggregate rule with "every scope failed" asked only of a batch that
\* has scopes: the empty batch counts as succeeded.
AggregateEmptySucceeds(results, errors, n) ==
    IF n > 0 /\ Len(errors) = n
    THEN Returned(FALSE, Join(results, "\n"), TRUE, Join(errors, "\n"))
    ELSE IF Len(errors) > 0
    THEN Returned(TRUE,
                  Join(results, "\n") \o <<"\n\nWarnings:\n">> \o Join(errors, "\n"),
                  FALSE, <<>>)
    ELSE Returned(TRUE, Join(results, "\n"), FALSE, <<>>)

\* The aggregate rule with the failure lines of a mixed batch kept in an
\* error field as well.
AggregateMixedKeepsError(results, errors, n) ==
    IF Len(errors) = n
    THEN Returned(FALSE, Join(results, "\n"), TRUE, Join(errors, "\n"))
    ELSE IF Len(errors) > 0
    THEN Returned(TRUE,
                  Join(results, "\n") \o <<"\n\nWarnings:\n">> \o Join(errors, "\n"),
                  TRUE, Join(errors, "\n"))
    ELSE Returned(TRUE, Join(results, "\n"), FALSE, <<>>)

\* The aggregate rule at the end of updatePluginAllScopes / uninstallPluginAllScopes.
Aggregate(results, errors, n) ==
    IF Len(errors) = n
    THEN Returned(FALSE, Join(results, "\n"), TRUE, Join(errors, "\n"))
    ELSE IF Len(errors) > 0
    THEN Returned(TRUE,
                  Join(results, "\n") \o <<"\n\nWarnings:\n">> \o Join(errors, "\n"),
                  FALSE, <<>>)
    ELSE Returned(TRUE, Join(results, "\n"), FALSE, <<>>)

\* updatePluginAllScopes, uninstallPluginAllScopes
PluginAllScopes(verb, pluginName, installations, outcomes) ==
    /\ verb \in BatchVerbs
    /\ LET run == BatchLoop(verb, pluginName, installations, outcomes,
                            [log |-> <<>>, results |-> <<>>, errors |-> <<>>])
       IN  /\ execLog' = run.log
           /\ lastResult' = Aggregate(run.results, run.errors, Len(installations))
    /\ lastOp' = [op |-> "batch", verb |-> verb, pluginName |-> pluginName,
                  installations |-> installations]
    /\ UNCHANGED <<claudeCommandPath, claudePath, batchRun>>

MarketplaceVerbs == {"marketplace add", "marketplace remove", "marketplace update"}

\* A source or a marketplace name; none stands for updateMarketplace().
MarketplaceArgInputs == { <<"o", "/", "r">>, <<" ", "o", "/", "r", " ">>, NoName }

\* What execSync did: on failure the thrown error carries message, stderr
\* and stdout.
MarketplaceOutcomes ==
    { [ok |-> TRUE,  text |-> "stdout", stderr |-> "", stdout |-> ""],
      [ok |-> FALSE, text |-> "Command failed", stderr |-> "", stdout |-> ""],
      [ok |-> FALSE, text |-> "Command failed", stderr |-> "fatal", stdout |-> "partial"] }

\* [message, stderr && `stderr: ...`, stdout && `stdout: ...`].filter(Boolean)
ErrorParts(outcome) ==
    <<<<outcome.text>>>>
        \o (IF outcome.stderr # "" THEN <<<<"stderr: ", outcome.stderr>>>> ELSE <<>>)
        \o (IF outcome.stdout # "" THEN <<<<"stdout: ", outcome.stdout>>>> ELSE <<>>)

\* The CLIResult of updateMarketplace: the failure keeps stdout as output
\* and joins message, stderr and stdout into error.
UpdateMarketplaceResult(outcome) ==
    IF outcome.ok
    THEN Returned(TRUE, <<outcome.text>>, FALSE, <<>>)
    ELSE Returned(FALSE, IF outcome.stdout # "" THEN <<outcome.stdout>> ELSE <<>>,
                  TRUE, Join(ErrorParts(outcome), "\n"))

\* addMarketplace(source), removeMarketplace(name), updateMarketplace(name?)
MarketplaceOp(verb, arg, outcome) ==
    /\ verb \in MarketplaceVerbs
    /\ arg = NoName => verb = "marketplace update"
    /\ lastOp' = [op |-> "single", verb |-> verb, pluginName |-> arg,
                  scope |-> "none", projectPath |-> NoValue]
    /\ execLog' = <<Invocation(verb, arg, "none", InheritedCwd, outcome)>>
    /\ lastResult' = IF verb = "marketplace update"
                     THEN UpdateMarketplaceResult(outcome)
                     ELSE SingleResult(outcome)
    /\ UNCHANGED <<claudeCommandPath, claudePath, batchRun>>

\* The caller takes the returned CLIResult; the executor keeps nothing of it.
ResultTaken ==
    /\ lastOp # NoOp
    /\ lastOp' = NoOp
    /\ execLog' = <<>>
    /\ lastResult' = NoResult
    /\ UNCHANGED <<claudeCommandPath, claudePath, batchRun>>

CatalogIdle ==
    /\ marketplacesFile = [status |-> "missing", entries |-> <<>>]
    /\ installedFile = [status |-> "missing", records |-> <<>>]
    /\ CatalogStart

InitExec ==
    /\ CatalogIdle
    /\ ExecStart
    /\ UiStart
    /\ DiscoveryIdle
    /\ CacheStart

\* An operation starts when the previous result has been taken.
NextExec ==
    \/ /\ lastOp = NoOp
       /\ \E path \in PathInputs : InitClaudePath(path)
       /\ UNCHANGED <<catalogVars, discoveryVars, cacheVars, uiVars>>
    \/ /\ lastOp = NoOp
       /\ \E pluginName \in PluginNameInputs, scope \in Scopes,
             projectPath \in ProjectPathInputs, outcome \in ExecOutcomes :
               InstallPlugin(pluginName, scope, projectPath, outcome)
       /\ UNCHANGED <<catalogVars, discoveryVars, cacheVars, uiVars>>
    \/ /\ lastOp = NoOp
       /\ \E verb \in PluginVerbs \ {"install"}, pluginName \in PluginNameInputs,
             scope \in Scopes, projectPath \in ProjectPathInputs,
             outcome \in ExecOutcomes :
               ScopedPluginOp(verb, pluginName, scope, projectPath, outcome)
       /\ UNCHANGED <<catalogVars, discoveryVars, cacheVars, uiVars>>
    \/ /\ lastOp = NoOp
       /\ \E verb \in BatchVerbs, pluginName \in PluginNameInputs,
             installations \in SeqsUpTo(InstallationArgs, MaxBatch) :
               \E outcomes \in [1..Len(installations) -> ExecOutcomes] :
                   PluginAllScopes(verb, pluginName, installations, outcomes)
       /\ UNCHANGED <<catalogVars, discoveryVars, cacheVars, uiVars>>
    \/ /\ lastOp = NoOp
       /\ \E verb \in MarketplaceVerbs, arg \in MarketplaceArgInputs,
             outcome \in MarketplaceOutcomes :
               MarketplaceOp(verb, arg, outcome)
       /\ UNCHANGED <<catalogVars, discoveryVars, cacheVars, uiVars>>
    \/ /\ ResultTaken
       /\ UNCHANGED <<catalogVars, discoveryVars, cacheVars, uiVars>>

SpecExec == InitExec /\ [][NextExec]_vars

-----------------------------------------------------------------------------
(* An all-scopes batch followed step by step: each execSync call starts a  *)
(* child process and blocks until the child has exited.                    *)

\* A loop that goes on to the next installation while a child still runs.
LoopAdvancesWithoutWaiting(run) == TRUE

\* execSync returns or throws only when the child has exited, so the for
\* loop reaches its next iteration with no child running.
LoopAdvances(run) == run.running = {}

\* updatePluginAllScopes / uninstallPluginAllScopes are entered.
BatchCall(verb, pluginName, installations) ==
    /\ lastOp = NoOp
    /\ batchRun = NoBatch
    /\ verb \in BatchVerbs
    /\ lastOp' = [op |-> "batch", verb |-> verb, pluginName |-> pluginName,
                  installations |-> installations]
    /\ batchRun' = [next |-> 1, started |-> <<>>, running |-> {},
                    results |-> <<>>, errors |-> <<>>]
    /\ execLog' = <<>>
    /\ lastResult' = NoResult
    /\ UNCHANGED <<claudeCommandPath, claudePath>>

\* The loop body up to the execSync call: the child of the next
\* installation is started.
ExecSyncStart ==
    /\ batchRun # NoBatch
    /\ lastResult = NoResult
    /\ batchRun.next <= Len(lastOp.installations)
    /\ LoopAdvances(batchRun)
    /\ batchRun' = [batchRun EXCEPT !.next = @ + 1,
                                    !.started = Append(@, batchRun.next),
                                    !.running = @ \cup {batchRun.next}]
    /\ UNCHANGED <<claudeCommandPath, claudePath, lastOp, execLog, lastResult>>

\* A child exits: execSync returns its output (results.push) or throws
\* (errors.push in the catch of this iteration).
ExecSyncEnd(i, outcome) ==
    /\ batchRun # NoBatch
    /\ i \in batchRun.running
    /\ LET inst == lastOp.installations[i]
       IN  /\ execLog' = Append(execLog,
                                Invocation(lastOp.verb, lastOp.pluginName, inst.scope,
                                           ExecCwd(inst.scope, inst.projectPath), outcome))
           /\ batchRun' =
                 [batchRun EXCEPT
                    !.running = @ \ {i},
                    !.results = IF outcome.ok
                                THEN Append(@, SuccessLine(lastOp.verb, inst.scope, outcome.text))
                                ELSE @,
                    !.errors  = IF outcome.ok THEN @
                                ELSE Append(@, FailureLine(lastOp.verb, inst.scope, outcome.text))]
    /\ UNCHANGED <<claudeCommandPath, claudePath, lastOp, lastResult>>

\* The loop is through: the aggregate result is returned.
BatchReturn ==
    /\ batchRun # NoBatch
    /\ lastResult = NoResult
    /\ batchRun.next > Len(lastOp.installations)
    /\ batchRun.running = {}
    /\ lastResult' = Aggregate(batchRun.results, batchRun.errors, Len(lastOp.installations))
    /\ UNCHANGED <<claudeCommandPath, claudePath, lastOp, execLog, batchRun>>

BatchResultTaken ==
    /\ batchRun # NoBatch
    /\ lastResult # NoResult
    /\ lastOp' = NoOp
    /\ execLog' = <<>>
    /\ lastResult' = NoResult
    /\ batchRun' = NoBatch
    /\ UNCHANGED <<claudeCommandPath, claudePath>>

InitBatch ==
    /\ CatalogIdle
    /\ ExecStart
    /\ UiStart
    /\ DiscoveryIdle
    /\ CacheStart

NextBatch ==
    \/ /\ lastOp = NoOp
       /\ \E verb \in BatchVerbs, pluginName \in PluginNameInputs,
             installations \in SeqsUpTo(InstallationArgs, MaxBatch) :
               BatchCall(verb, pluginName, installations)
       /\ UNCHANGED <<catalogVars, discoveryVars, cacheVars, uiVars>>
    \/ /\ ExecSyncStart
       /\ UNCHANGED <<catalogVars, discoveryVars, cacheVars, uiVars>>
    \/ /\ \E i \in 1..MaxBatch, outcome \in ExecOutcomes : ExecSyncEnd(i, outcome)
       /\ UNCHANGED <<catalogVars, discoveryVars, cacheVars, uiVars>>
    \/ /\ BatchReturn
       /\ UNCHANGED <<catalogVars, discoveryVars, cacheVars, uiVars>>
    \/ /\ BatchResultTaken
       /\ UNCHANGED <<catalogVars, discoveryVars, cacheVars, uiVars>>

SpecBatch == InitBatch /\ [][NextBatch]_vars

-----------------------------------------------------------------------------
(* Earlier revision of the executor: the tool is discovered by probing and
   every operation starts with getClaudePath() *)

\* Candidate commands, in probing order; the last one holds a wildcard.
CLAUDE_PATHS ==
    << <<"claude">>,
       <<"~/.local/bin/claude">>,
       <<"/usr/local/bin/claude">>,
       <<"/opt/homebrew/bin/claude">>,
       <<"~/.npm-global/bin/claude">>,
       <<"~/.nvm/versions/node/", "*", "/bin/claude">> >>

Includes(s, piece) == \E i \in 1..Len(s) : s[i] = piece

Probeable == {CLAUDE_PATHS[i] : i \in {j \in 1..Len(CLAUDE_PATHS) : ~Includes(CLAUDE_PATHS[j], "*")}}

WhichOutputs == { NoName, <<"/usr/bin/claude", "\n">> }

\* The loop of findClaudePath: the first candidate whose version check
\* succeeds is returned; wildcard candidates are skipped unprobed.
RECURSIVE ProbePaths(_, _)
ProbePaths(paths, probed) ==
    IF paths = <<>> THEN [found |-> FALSE, path |-> NullPath, probes |-> probed]
    ELSE IF Includes(Head(paths), "*") THEN ProbePaths(Tail(paths), probed)
    ELSE IF Head(paths) \in workingPaths
    THEN [found |-> TRUE, path |-> Head(paths), probes |-> Append(probed, Head(paths))]
    ELSE ProbePaths(Tail(paths), Append(probed, Head(paths)))

\* findClaudePath: the candidates, then `which claude`, then null.
findClaudePath ==
    LET r == ProbePaths(CLAUDE_PATHS, <<>>)
    IN  IF r.found THEN [path |-> r.path, probes |-> r.probes]
        ELSE [path   |-> IF whichOutput = NoName THEN NullPath ELSE Trim(whichOutput),
              probes |-> Append(r.probes, <<"which claude">>)]

\* A lookup that searches on every call.
getClaudePathNoMemo == findClaudePath

\* getClaudePath up to its throw: the memoized value, computed on first use.
getClaudePath ==
    IF cachedClaudePath = Unset
    THEN findClaudePath
    ELSE [path |-> cachedClaudePath, probes |-> <<>>]

\* How execSync fails in this revision's catch: error.stderr || error.message.
DiscoveryOutcomes ==
    { [ok |-> TRUE,  text |-> "stdout",  stderr |-> ""],
      [ok |-> FALSE, text |-> "Command failed", stderr |-> ""],
      [ok |-> FALSE, text |-> "Command failed", stderr |-> "stderr"] }

ProbingVerbs ==
    PluginVerbs \cup {"marketplace add", "marketplace remove", "marketplace update",
                      "validate"}

\* installPlugin ... validatePlugin of the earlier revision: getClaudePath()
\* is called before the try block, so its ClaudeNotInstalledError escapes.
ProbingOp(verb, target, scope, outcome) ==
    LET found == getClaudePath
    IN  /\ cachedClaudePath' = found.path
        /\ probeLog' = found.probes
        /\ lastOp' = [op |-> "probing", verb |-> verb, pluginName |-> target,
                      scope |-> scope, projectPath |-> NoValue]
        /\ IF found.path = NullPath
           THEN /\ execLog' = <<>>
                /\ lastResult' = [kind |-> "thrown", error |-> "ClaudeNotInstalledError"]
           ELSE /\ execLog' = << [command |-> found.path, verb |-> verb,
                                  target |-> target, scope |-> scope,
                                  cwd |-> InheritedCwd, outcome |-> outcome] >>
                /\ lastResult' =
                      IF outcome.ok
                      THEN Returned(TRUE, <<outcome.text>>, FALSE, <<>>)
                      ELSE Returned(FALSE, <<>>, TRUE,
                                    IF outcome.stderr # "" THEN <<outcome.stderr>>
                                    ELSE <<outcome.text>>)
        /\ UNCHANGED <<claudeCommandPath, claudePath, batchRun, workingPaths, whichOutput>>

ProbingResultTaken ==
    /\ ResultTaken
    /\ UNCHANGED discoveryVars

InitProbing ==
    /\ CatalogIdle
    /\ ExecStart
    /\ UiStart
    /\ workingPaths \in SUBSET Probeable
    /\ whichOutput \in WhichOutputs
    /\ DiscoveryStart
    /\ CacheStart

NextProbing ==
    \/ /\ lastOp = NoOp
       /\ \E verb \in ProbingVerbs, target \in PluginNameInputs, scope \in Scopes,
             outcome \in DiscoveryOutcomes :
               ProbingOp(verb, target, scope, outcome)
       /\ UNCHANGED <<catalogVars, cacheVars, uiVars>>
    \/ /\ ProbingResultTaken
       /\ UNCHANGED <<catalogVars, cacheVars, uiVars>>

SpecProbing == InitProbing /\ [][NextProbing]_vars

-----------------------------------------------------------------------------
(* TTL cache layer *)

\* CACHE_TTL (5 minutes) in ticks of 150 s.
CACHE_TTL == 2

MaxTime == 3
MaxVersion == 1
MaxInFlight == 1

\* The ttl arguments passed by the callers, in clock ticks.
TtlInputs == {CACHE_TTL}

\* The keys that the direct calls below are made with.
KeyInputs == {ALL_PLUGINS, INSTALLED_PLUGINS}

\* The freshness test with its comparison turned around.
CacheLookupInverted(c, key, ttl, t) ==
    IF c[key].state = "stored" /\ t - c[key].timestamp > ttl
    THEN [hit |-> TRUE, value |-> c[key].value]
    ELSE [hit |-> FALSE, value |-> 0]

\* The freshness test with an entry aged exactly ttl counted as fresh.
CacheLookupInclusive(c, key, ttl, t) ==
    IF c[key].state = "stored" /\ t - c[key].timestamp <= ttl
    THEN [hit |-> TRUE, value |-> c[key].value]
    ELSE [hit |-> FALSE, value |-> 0]

\* The branch taken after cache.get: a parsable envelope younger than ttl
\* is a hit; anything else falls through to the fetcher.
CacheLookup(c, key, ttl, t) ==
    IF c[key].state = "stored" /\ t - c[key].timestamp < ttl
    THEN [hit |-> TRUE, value |-> c[key].value]
    ELSE [hit |-> FALSE, value |-> 0]

\* A remove that leaves the store as it is.
RemoveKeyNothing(c, key) == c

\* cache.remove(key)
RemoveKey(c, key) == [c EXCEPT ![key] = Absent]

\* A fetcher called for the key: it will return what is on disk now.
Fetch(key) == [key |-> key, value |-> dataVersion, overtaken |-> FALSE]

\* The fetches in flight after the key was invalidated: cache.remove does
\* not touch them; those of the key are marked as begun before it.
Overtaken(fl, key) ==
    [i \in 1..Len(fl) |-> IF fl[i].key = key THEN [fl[i] EXCEPT !.overtaken = TRUE]
                                              ELSE fl[i]]

\* The record of the last event on each key, kept beside the store.
Invalidated(st, key) ==
    [k \in CACHE_KEYS |->
        IF k = key
        THEN [event |-> "invalidated", value |-> st[k].value, at |-> st[k].at,
              bystander |-> FALSE]
        ELSE IF st[k].event = "stored" THEN [st[k] EXCEPT !.bystander = TRUE]
        ELSE st[k]]

\* getCachedData up to the hit's return or to `await fetcher()`.
GetCachedDataStart(key, ttl) ==
    LET found == CacheLookup(cache, key, ttl, now)
    IN  /\ lastCall' = [key |-> key, ttl |-> ttl, at |-> now, hit |-> found.hit,
                        value |-> found.value, before |-> story[key],
                        stored |-> cache[key].state]
        /\ IF found.hit
           THEN UNCHANGED inflight
           ELSE /\ Len(inflight) < MaxInFlight
                /\ inflight' = Append(inflight, Fetch(key))
        /\ UNCHANGED <<cache, now, dataVersion, story>>

\* getCachedData from the fetcher's result to its return: cache.set.
GetCachedDataFinish(i) ==
    /\ i \in 1..Len(inflight)
    /\ cache' = [cache EXCEPT ![inflight[i].key] = Envelope(inflight[i].value, now)]
    /\ story' = [story EXCEPT ![inflight[i].key] =
                    [event |-> "stored", value |-> inflight[i].value, at |-> now,
                     bystander |-> FALSE]]
    /\ inflight' = [j \in 1..(Len(inflight) - 1) |->
                        IF j < i THEN inflight[j] ELSE inflight[j + 1]]
    /\ lastCall' = NoCall
    /\ UNCHANGED <<now, dataVersion>>

InvalidateCache(key) ==
    /\ cache' = RemoveKey(cache, key)
    /\ story' = Invalidated(story, key)
    /\ inflight' = Overtaken(inflight, key)
    /\ lastCall' = NoCall
    /\ UNCHANGED <<now, dataVersion>>

InvalidateAllCaches ==
    /\ cache' = [k \in CACHE_KEYS |-> Absent]
    /\ story' = [k \in CACHE_KEYS |->
                    [event |-> "invalidated", value |-> story[k].value, at |-> story[k].at,
                     bystander |-> FALSE]]
    /\ inflight' = [i \in 1..Len(inflight) |-> [inflight[i] EXCEPT !.overtaken = TRUE]]
    /\ lastCall' = NoCall
    /\ UNCHANGED <<now, dataVersion>>

\* Time passes.
Tick ==
    /\ now < MaxTime
    /\ now' = now + 1
    /\ lastCall' = NoCall
    /\ UNCHANGED <<cache, dataVersion, inflight, story>>

\* The data on disk changes (the external tool wrote its registries).
DataChanges ==
    /\ dataVersion < MaxVersion
    /\ dataVersion' = dataVersion + 1
    /\ lastCall' = NoCall
    /\ UNCHANGED <<cache, now, inflight, story>>

InitCache ==
    /\ CatalogIdle
    /\ ExecStart
    /\ UiStart
    /\ DiscoveryIdle
    /\ cache \in {c \in [CACHE_KEYS -> {Absent, Garbage}] :
                    \A k \in CACHE_KEYS \ KeyInputs : c[k] = Absent}
    /\ now = 0
    /\ dataVersion = 0
    /\ inflight = <<>>
    /\ story = [k \in CACHE_KEYS |-> NoStory]
    /\ lastCall = NoCall

NextCache ==
    \/ /\ \E key \in KeyInputs, ttl \in TtlInputs : GetCachedDataStart(key, ttl)
       /\ UNCHANGED <<catalogVars, execVars, discoveryVars, uiVars>>
    \/ /\ \E i \in 1..Len(inflight) : GetCachedDataFinish(i)
       /\ UNCHANGED <<catalogVars, execVars, discoveryVars, uiVars>>
    \/ /\ \E key \in KeyInputs : InvalidateCache(key)
       /\ UNCHANGED <<catalogVars, execVars, discoveryVars, uiVars>>
    \/ /\ InvalidateAllCaches
       /\ UNCHANGED <<catalogVars, execVars, discoveryVars, uiVars>>
    \/ /\ Tick
       /\ UNCHANGED <<catalogVars, execVars, discoveryVars, uiVars>>
    \/ /\ DataChanges
       /\ UNCHANGED <<catalogVars, execVars, discoveryVars, uiVars>>

SpecCache == InitCache /\ [][NextCache]_vars

-----------------------------------------------------------------------------
(* Presentation handlers: BrowsePlugins and InstalledPlugins (index.tsx),  *)
(* PluginDetails (plugin-details.tsx) and the earlier BrowsePlugins.       *)

MaxUiBatch == 2

\* The plugin the list item stands for.
UiPluginId == <<"a", "@", "m">>

UiOutcomes == {o \in ExecOutcomes : o.text # "command not found"}

Views == {"BrowsePlugins", "InstalledPlugins", "PluginDetails", "BrowsePluginsEarlier",
          "Marketplaces", "MarketplacesEarlier", "AddMarketplace"}

\* The key read and invalidated by the data hook of a view: usePlugins,
\* useInstalledPlugins, useMarketplaces. PluginDetails has no hook;
\* AddMarketplace is handed the refetch of Marketplaces as onAdded.
HookKey(view) ==
    CASE view = "InstalledPlugins" -> INSTALLED_PLUGINS
      [] view = "PluginDetails" -> "none"
      [] view \in {"Marketplaces", "MarketplacesEarlier", "AddMarketplace"} -> MARKETPLACES
      [] OTHER -> ALL_PLUGINS

\* The views that call a data hook themselves.
HasHook(view) == view \notin {"PluginDetails", "AddMarketplace"}

\* kind: which executor operation the handler awaits. confirm: the handler
\* opens confirmAlert first (a handler that opens none runs as if confirmed). passesPath: the handler hands projectPath on.
\* invalidates: the invalidateCache calls of the success branch, in order.
\* refetches: the success branch ends with refetch().
Handler(view, name, verb, kind, confirm, passesPath, invalidates, refetches) ==
    [view |-> view, name |-> name, verb |-> verb, kind |-> kind, confirm |-> confirm,
     passesPath |-> passesPath, invalidates |-> invalidates, refetches |-> refetches]

\* executePluginOperation: installed-plugins, then all-plugins, then refetch().
ExecutePluginOperation(name, verb, kind) ==
    Handler("BrowsePlugins", name, verb, kind, FALSE, TRUE,
            <<INSTALLED_PLUGINS, ALL_PLUGINS>>, TRUE)

BrowsePluginsHandlers ==
    { Handler("BrowsePlugins", "handleInstall", "install", "install", FALSE, FALSE,
              <<ALL_PLUGINS, INSTALLED_PLUGINS>>, TRUE),
      ExecutePluginOperation("handleUpdateSingleScope", "update", "single"),
      ExecutePluginOperation("handleUpdateAllScopes", "update", "batch"),
      Handler("BrowsePlugins", "handleUninstallAll", "uninstall", "batch", TRUE, TRUE,
              <<INSTALLED_PLUGINS, ALL_PLUGINS>>, TRUE),
      Handler("BrowsePlugins", "handleUninstall", "uninstall", "single", TRUE, TRUE,
              <<INSTALLED_PLUGINS, ALL_PLUGINS>>, TRUE),
      ExecutePluginOperation("handleEnable", "enable", "single"),
      ExecutePluginOperation("handleDisable", "disable", "single") }

InstalledPluginsHandlers ==
    { Handler("InstalledPlugins", "handleUpdate", "update", "single", FALSE, FALSE,
              <<INSTALLED_PLUGINS, ALL_PLUGINS>>, TRUE),
      Handler("InstalledPlugins", "handleUninstall", "uninstall", "single", TRUE, FALSE,
              <<INSTALLED_PLUGINS, ALL_PLUGINS>>, TRUE),
      Handler("InstalledPlugins", "handleEnable", "enable", "single", FALSE, FALSE,
              <<INSTALLED_PLUGINS>>, TRUE),
      Handler("InstalledPlugins", "handleDisable", "disable", "single", FALSE, FALSE,
              <<INSTALLED_PLUGINS>>, TRUE) }

PluginDetailsHandlers ==
    { Handler("PluginDetails", "handleInstall", "install", "install", FALSE, FALSE,
              <<ALL_PLUGINS, INSTALLED_PLUGINS>>, FALSE) }

BrowsePluginsEarlierHandlers ==
    { Handler("BrowsePluginsEarlier", "handleInstall", "install", "install", FALSE, FALSE,
              <<ALL_PLUGINS, INSTALLED_PLUGINS>>, TRUE),
      Handler("BrowsePluginsEarlier", "handleUpdate", "update", "single", FALSE, FALSE,
              <<INSTALLED_PLUGINS, ALL_PLUGINS>>, TRUE),
      Handler("BrowsePluginsEarlier", "handleUninstall", "uninstall", "single", TRUE, FALSE,
              <<INSTALLED_PLUGINS, ALL_PLUGINS>>, TRUE),
      Handler("BrowsePluginsEarlier", "handleEnable", "enable", "single", FALSE, FALSE,
              <<INSTALLED_PLUGINS, ALL_PLUGINS>>, TRUE),
      Handler("BrowsePluginsEarlier", "handleDisable", "disable", "single", FALSE, FALSE,
              <<INSTALLED_PLUGINS, ALL_PLUGINS>>, TRUE) }

\* Marketplaces (marketplaces.tsx) and its earlier revision: the same three
\* handlers. kind "marketplace-all" is updateMarketplace() without a name.
MarketplacesHandlersOf(view) ==
    { Handler(view, "handleUpdate", "marketplace update", "marketplace", FALSE, FALSE,
              <<MARKETPLACES, ALL_PLUGINS>>, TRUE),
      Handler(view, "handleUpdateAll", "marketplace update", "marketplace-all", FALSE, FALSE,
              <<MARKETPLACES, ALL_PLUGINS>>, TRUE),
      Handler(view, "handleRemove", "marketplace remove", "marketplace", TRUE, FALSE,
              <<MARKETPLACES, ALL_PLUGINS>>, TRUE) }

\* AddMarketplace.handleSubmit: onAdded() is the re-read.
AddMarketplaceHandlers ==
    { Handler("AddMarketplace", "handleSubmit", "marketplace add", "marketplace", FALSE, FALSE,
              <<MARKETPLACES, ALL_PLUGINS>>, TRUE) }

MarketplaceHandlers ==
    MarketplacesHandlersOf("Marketplaces") \cup MarketplacesHandlersOf("MarketplacesEarlier")
        \cup AddMarketplaceHandlers

PluginHandlers ==
    BrowsePluginsHandlers \cup InstalledPluginsHandlers \cup PluginDetailsHandlers
        \cup BrowsePluginsEarlierHandlers

Inv(key) == [step |-> "invalidate", key |-> key]

\* refetch() of the view's hook: invalidateCache(its key), then fetchPlugins,
\* which runs getCachedData up to `await fetcher()`.
Refetch(view) ==
    << [step |-> "refetch", key |-> HookKey(view)],
       Inv(HookKey(view)),
       [step |-> "read", key |-> HookKey(view)] >>

\* A success branch that re-reads first and invalidates afterwards.
SuccessStepsRefetchFirst(h) ==
    (IF h.refetches THEN Refetch(h.view) ELSE <<>>)
        \o [i \in 1..Len(h.invalidates) |-> Inv(h.invalidates[i])]

\* The steps of the success branch of a handler.
SuccessSteps(h) ==
    [i \in 1..Len(h.invalidates) |-> Inv(h.invalidates[i])]
        \o (IF h.refetches THEN Refetch(h.view) ELSE <<>>)

\* The effect of the steps on the cache layer, one after another.
RECURSIVE ApplySteps(_, _)
ApplySteps(steps, st) ==
    IF steps = <<>> THEN st
    ELSE LET s == Head(steps)
             next ==
                CASE s.step = "invalidate" ->
                        [st EXCEPT !.cache = RemoveKey(st.cache, s.key),
                                   !.story = Invalidated(st.story, s.key),
                                   !.inflight = Overtaken(st.inflight, s.key)]
                  [] s.step = "read" ->
                        LET found == CacheLookup(st.cache, s.key, CACHE_TTL, now)
                        IN  IF found.hit THEN st
                            ELSE [st EXCEPT !.inflight = Append(st.inflight, Fetch(s.key))]
                  [] OTHER -> st
         IN  ApplySteps(Tail(steps), next)

\* The executor call of a handler.
HandlerCall(h, installations, outcomes) ==
    LET scope == installations[1].scope
        projectPath == IF h.passesPath THEN installations[1].projectPath ELSE NoValue
    IN  CASE h.kind = "install" ->
                InstallPlugin(UiPluginId, scope, NoValue, outcomes[1])
          [] h.kind = "single" ->
                ScopedPluginOp(h.verb, UiPluginId, scope, projectPath, outcomes[1])
          [] OTHER ->
                PluginAllScopes(h.verb, UiPluginId, installations, outcomes)

\* A handler that goes on whatever confirmAlert answered.
DeclinedNever(h, confirmed) == FALSE

\* `if (await confirmAlert(...)) { ... }`: nothing of the handler runs when
\* the alert is dismissed.
Declined(h, confirmed) == h.confirm /\ ~confirmed

\* The handler returned before it called the executor.
NotCalled(h, confirmed) ==
    /\ uiRun' = [handler |-> h.name, view |-> h.view, verb |-> h.verb, asked |-> h.confirm,
                 confirmed |-> confirmed, called |-> FALSE, steps |-> <<>>]
    /\ UNCHANGED <<execVars, cacheVars>>

\* A handler that invalidates and re-reads whatever the call came to.
StepsAfterAnyResult(h, result) == SuccessSteps(h)

\* try { result = await op(); if (result.success) {...} else {toast} }
\* catch {toast}: only the success branch touches the cache layer. (The
\* operations of claude-cli.ts catch every error themselves, so with this
\* executor the handler's catch is never entered.)
StepsAfter(h, result) ==
    IF result.kind = "returned" /\ result.success THEN SuccessSteps(h) ELSE <<>>

\* From the executor's result to the end of the handler's synchronous part:
\* the success branch invalidates and re-reads, the other branches only
\* change the toast.
AfterCall(h, confirmed) ==
    /\ LET steps == StepsAfter(h, lastResult')
           after == ApplySteps(steps, [cache |-> cache, story |-> story,
                                       inflight |-> inflight])
       IN  /\ Len(after.inflight) <= MaxInFlight
           /\ uiRun' = [handler |-> h.name, view |-> h.view, verb |-> h.verb,
                        asked |-> h.confirm, confirmed |-> confirmed,
                        called |-> TRUE, steps |-> steps]
           /\ cache' = after.cache
           /\ story' = after.story
           /\ inflight' = after.inflight
    /\ lastCall' = NoCall
    /\ UNCHANGED <<now, dataVersion>>

\* One run of a plugin handler, from the user's action to the end of its
\* synchronous part (the re-read's fetch is left in flight).
RunHandler(h, installations, outcomes, confirmed) ==
    /\ uiRun = NoRun
    /\ IF Declined(h, confirmed)
       THEN NotCalled(h, confirmed)
       ELSE /\ HandlerCall(h, installations, outcomes)
            /\ AfterCall(h, confirmed)

SourceTypes == {"github", "url"}

\* What the form's source field, or the list item's name, holds.
SourceInputs == { <<>>, <<" ">>, <<"r">>, <<"o", "/", "r">> }

\* handleSubmit returns early on a blank source and on a github source
\* without a slash.
SubmitRejected(h, sourceType, source) ==
    /\ h.name = "handleSubmit"
    /\ \/ Trim(source) = <<>>
       \/ sourceType = "github" /\ ~Includes(source, "/")

\* One run of a marketplace handler.
RunMarketplaceHandler(h, sourceType, source, outcome, confirmed) ==
    /\ uiRun = NoRun
    /\ IF SubmitRejected(h, sourceType, source) \/ Declined(h, confirmed)
       THEN NotCalled(h, confirmed)
       ELSE /\ MarketplaceOp(h.verb,
                             IF h.kind = "marketplace-all" THEN NoName ELSE source,
                             outcome)
            /\ AfterCall(h, confirmed)

\* The view is rendered again; the handler's toast and result are gone.
HandlerDone ==
    /\ uiRun # NoRun
    /\ uiRun' = NoRun
    /\ lastOp' = NoOp
    /\ execLog' = <<>>
    /\ lastResult' = NoResult
    /\ UNCHANGED <<claudeCommandPath, claudePath, batchRun, cacheVars>>

\* A view mounts: its hook's effect runs fetchPlugins.
ViewMounts(view) ==
    /\ uiRun = NoRun
    /\ HasHook(view)
    /\ GetCachedDataStart(HookKey(view), CACHE_TTL)
    /\ UNCHANGED execVars

UiInstallations ==
    {is \in SeqsUpTo(InstallationArgs, MaxUiBatch) :
        is # <<>> /\ \A i, j \in 1..Len(is) : i # j => is[i] # is[j]}

InitUI ==
    /\ CatalogIdle
    /\ ExecStart
    /\ UiStart
    /\ DiscoveryIdle
    /\ CacheStart

NextUI ==
    \/ /\ uiRun = NoRun
       /\ \E h \in PluginHandlers, installations \in UiInstallations, confirmed \in BOOLEAN :
             /\ h.kind # "batch" => Len(installations) = 1
             /\ ~h.confirm => confirmed
             /\ \E outcomes \in [1..Len(installations) -> UiOutcomes] :
                   /\ ~confirmed => \A i \in DOMAIN outcomes : outcomes[i].ok
                   /\ RunHandler(h, installations, outcomes, confirmed)
       /\ UNCHANGED <<catalogVars, discoveryVars>>
    \/ /\ uiRun = NoRun
       /\ \E h \in MarketplaceHandlers, sourceType \in SourceTypes, source \in SourceInputs,
             outcome \in MarketplaceOutcomes, confirmed \in BOOLEAN :
             /\ h.name # "handleSubmit" => (sourceType = "github" /\ Trim(source) # <<>>)
             /\ ~h.confirm => confirmed
             /\ RunMarketplaceHandler(h, sourceType, source, outcome, confirmed)
       /\ UNCHANGED <<catalogVars, discoveryVars>>
    \/ /\ HandlerDone
       /\ UNCHANGED <<catalogVars, discoveryVars>>
    \/ /\ \E view \in Views : ViewMounts(view)
       /\ UNCHANGED <<catalogVars, discoveryVars, uiVars>>
    \/ /\ uiRun = NoRun
       /\ \E i \in 1..Len(inflight) : GetCachedDataFinish(i)
       /\ UNCHANGED <<catalogVars, execVars, discoveryVars, uiVars>>

SpecUI == InitUI /\ [][NextUI]_vars

-----------------------------------------------------------------------------
(* Properties of the catalog engine *)

\* The registry contents as the engine sees them.
RegisteredMarkets ==
    IF marketplacesFile.status = "ok" THEN marketplacesFile.entries ELSE <<>>

StoredRecords ==
    IF installedFile.status = "ok" THEN installedFile.records ELSE <<>>

ReadableListing(m) == m.manifest.status = "ok"

\* Entries of a listing that the loop reaches: those before the first
\* entry without a name.
Reached(m, e) ==
    /\ e \in 1..Len(m.manifest.plugins)
    /\ \A k \in 1..e : m.manifest.plugins[k].name # NoName

WellFormed(m) ==
    \A k \in 1..Len(m.manifest.plugins) : m.manifest.plugins[k].name # NoName

PluginsOf(m) == SelectSeq(allPlugins, LAMBDA p : p.marketplace = m.name)

ExpectedId(entryName, marketName) == Trim(entryName) \o <<"@">> \o Trim(marketName)

MatchingRecords(id) == {i \in 1..Len(StoredRecords) : StoredRecords[i].pluginId = id}

\* The installations list holds one element per stored record with the id,
\* in the records' order, and nothing else.
ExactlyTheRecords(installations, id) ==
    /\ Len(installations) = Cardinality(MatchingRecords(id))
    /\ \A k \in 1..Len(installations) :
          \E i \in MatchingRecords(id) :
              /\ Cardinality({j \in MatchingRecords(id) : j <= i}) = k
              /\ installations[k].scope = StoredRecords[i].scope
              /\ installations[k].projectPath = StoredRecords[i].projectPath

\* C1: for every registered marketplace M with a readable listing and every
\* listing entry E of M that is emitted, the Plugin emitted for E carries
\* exactly the installation records whose pluginId is
\* trim(E.name) + "@" + trim(M.name), whatever whitespace surrounds the names.
C1_InstallationsExact ==
    catalogPc = "done" =>
        \A mi \in 1..Len(RegisteredMarkets) :
            LET m == RegisteredMarkets[mi] IN
            ReadableListing(m) =>
                \A e \in 1..Len(m.manifest.plugins) :
                    Reached(m, e) =>
                        /\ Len(PluginsOf(m)) >= e
                        /\ PluginsOf(m)[e].name = m.manifest.plugins[e].name
                        /\ ExactlyTheRecords(PluginsOf(m)[e].installations,
                                             ExpectedId(m.manifest.plugins[e].name, m.name))

\* A plugin whose listing name and marketplace name both carry whitespace
\* has an installation, while another stored record has a different id.
C1_Witness ==
    /\ catalogPc = "done"
    /\ \E k \in 1..Len(allPlugins) :
          /\ Trim(allPlugins[k].name) # allPlugins[k].name
          /\ Trim(allPlugins[k].marketplace) # allPlugins[k].marketplace
          /\ Len(allPlugins[k].installations) = 1
          /\ Len(StoredRecords) = 2

\* C7: a registered marketplace whose listing manifest is missing,
\* unparsable or without a plugins field contributes no Plugin, and every
\* other registered marketplace (with a well-formed listing) contributes one
\* Plugin per entry of its own listing, in listing order.
C7_BadListingIsolated ==
    catalogPc = "done" =>
        \A mi \in 1..Len(RegisteredMarkets) :
            LET m == RegisteredMarkets[mi] IN
            /\ ~ReadableListing(m) => PluginsOf(m) = <<>>
            /\ (ReadableListing(m) /\ WellFormed(m)) =>
                  /\ Len(PluginsOf(m)) = Len(m.manifest.plugins)
                  /\ \A e \in 1..Len(m.manifest.plugins) :
                        PluginsOf(m)[e].name = m.manifest.plugins[e].name

\* A marketplace without a usable listing comes first in the registry and
\* the one after it still contributes its two plugins.
C7_Witness ==
    /\ catalogPc = "done"
    /\ Len(RegisteredMarkets) = 2
    /\ ~ReadableListing(RegisteredMarkets[1])
    /\ ReadableListing(RegisteredMarkets[2])
    /\ Len(allPlugins) = 2
    /\ \A k \in 1..2 : allPlugins[k].marketplace = RegisteredMarkets[2].name

-----------------------------------------------------------------------------
(* Properties of the mutation executor *)

IsBatch == lastOp # NoOp /\ lastOp.op = "batch"

IsSingle == lastOp # NoOp /\ lastOp.op = "single"

SucceededCalls == {i \in 1..Len(execLog) : execLog[i].outcome.ok}

FailedCalls == {i \in 1..Len(execLog) : ~execLog[i].outcome.ok}

\* The batch made one invocation per installation record, in their order.
OnePerInstallation ==
    /\ Len(execLog) = Len(lastOp.installations)
    /\ \A i \in 1..Len(execLog) : execLog[i].scope = lastOp.installations[i].scope

\* The report lines of the invocations that succeeded (or failed), in
\* invocation order.
ReportLines(ok) ==
    LET calls == SelectSeq(execLog, LAMBDA c : c.outcome.ok = ok)
    IN  [i \in 1..Len(calls) |->
            IF ok THEN SuccessLine(lastOp.verb, calls[i].scope, calls[i].outcome.text)
                  ELSE FailureLine(lastOp.verb, calls[i].scope, calls[i].outcome.text)]

WarningsHeader == "\n\nWarnings:\n"

\* C2: a batch in which at least one scope succeeds and at least one fails
\* returns success = true and no error field; its output is the
\* newline-joined lines of the successful scopes followed by a Warnings
\* block with the failure line of every failed scope, each naming its scope.
C2_MixedBatch ==
    (IsBatch /\ SucceededCalls # {} /\ FailedCalls # {}) =>
        /\ OnePerInstallation
        /\ lastResult.kind = "returned"
        /\ lastResult.success
        /\ ~lastResult.hasError
        /\ \E w \in 1..Len(lastResult.output) :
              /\ lastResult.output[w] = WarningsHeader
              /\ SubSeq(lastResult.output, 1, w - 1) = Join(ReportLines(TRUE), "\n")
              /\ SubSeq(lastResult.output, w + 1, Len(lastResult.output))
                    = Join(ReportLines(FALSE), "\n")
              /\ \A i \in FailedCalls :
                    \E k \in (w + 1)..(Len(lastResult.output) - 2) :
                        /\ lastResult.output[k] = execLog[i].scope
                        /\ lastResult.output[k + 2] = execLog[i].outcome.text

\* Three installations, the second of which fails.
C2_Witness ==
    /\ IsBatch
    /\ lastOp.verb = "update"
    /\ Len(execLog) = 3
    /\ FailedCalls = {2}
    /\ lastResult.success

\* C3: a batch over one or more installation records in which every scope
\* fails returns success = false, and its error is the newline-joined
\* failure lines of all the scopes, one per record, in installation order.
C3_AllFailedBatch ==
    (IsBatch /\ Len(lastOp.installations) >= 1 /\ SucceededCalls = {}) =>
        /\ OnePerInstallation
        /\ lastResult.kind = "returned"
        /\ ~lastResult.success
        /\ lastResult.hasError
        /\ Len(ReportLines(FALSE)) = Len(lastOp.installations)
        /\ lastResult.error = Join(ReportLines(FALSE), "\n")
        /\ lastResult.output = <<>>

\* Three installations, all of which fail.
C3_Witness ==
    /\ IsBatch
    /\ Len(lastOp.installations) = 3
    /\ Cardinality(FailedCalls) = 3
    /\ ~lastResult.success

\* C4: a batch over one or more installation records in which every scope
\* succeeds returns success = true, no error field, and the newline-joined
\* per-scope lines in installation order, without a Warnings block.
C4_AllSucceededBatch ==
    (IsBatch /\ Len(lastOp.installations) >= 1 /\ FailedCalls = {}) =>
        /\ OnePerInstallation
        /\ lastResult.kind = "returned"
        /\ lastResult.success
        /\ ~lastResult.hasError
        /\ Len(ReportLines(TRUE)) = Len(lastOp.installations)
        /\ lastResult.output = Join(ReportLines(TRUE), "\n")
        /\ \A k \in 1..Len(lastResult.output) : lastResult.output[k] # WarningsHeader

\* An uninstall batch over two installations, both succeeding.
C4_Witness ==
    /\ IsBatch
    /\ lastOp.verb = "uninstall"
    /\ Len(lastOp.installations) = 2
    /\ Cardinality(SucceededCalls) = 2
    /\ lastResult.success

\* C5: for each of install, uninstall, enable, disable and update, when the
\* scope is project or local and a projectPath was supplied, the external
\* tool runs with its working directory set to that projectPath.
C5_CwdIsProjectPath ==
    (IsSingle /\ lastOp.scope \in {"project", "local"} /\ lastOp.projectPath # NoValue) =>
        \A i \in 1..Len(execLog) : execLog[i].cwd = lastOp.projectPath

\* An external invocation of the last operation failed, or no working
\* external tool could be found for it.
ToolFailed ==
    \/ \E i \in 1..Len(execLog) : ~execLog[i].outcome.ok
    \/ lastOp.op = "probing" /\ cachedClaudePath = NullPath

\* C6: every mutation operation of the executor returns a CLIResult and
\* never throws; a failure of the external invocation, the external tool
\* not being found included, is returned as success = false with the
\* failure text in the error field.
C6_FailuresAreReturned ==
    /\ IsBatch => lastResult.kind = "returned"
    /\ (lastOp # NoOp /\ lastOp.op \in {"single", "probing"} /\ lastOp.verb # "validate") =>
            /\ lastResult.kind = "returned"
            /\ ToolFailed => (/\ ~lastResult.success
                              /\ lastResult.hasError
                              /\ lastResult.error # <<>>)

-----------------------------------------------------------------------------
(* Properties of the TTL cache layer *)

CallMade == lastCall # NoCall

\* The call started less than ttl after the key's last store.
WithinTtl == lastCall.before.at >= 0 /\ lastCall.at - lastCall.before.at < lastCall.ttl

\* C8: a getCachedData call made less than ttl after an earlier call stored
\* the key's value, with no invalidation of the key in between, does not
\* invoke the fetcher (one fetch for the two calls) and returns the value
\* that the earlier call stored.
C8_SecondCallHits ==
    (CallMade /\ lastCall.before.event = "stored" /\ WithinTtl) =>
        /\ lastCall.hit
        /\ lastCall.value = lastCall.before.value

\* A hit one tick after the store, after the data on disk has changed.
C8_Witness ==
    /\ CallMade
    /\ lastCall.before.event = "stored"
    /\ lastCall.at = lastCall.before.at + 1
    /\ lastCall.hit
    /\ dataVersion # lastCall.value

\* C9: the getCachedData call that follows invalidateCache(key) invokes the
\* fetcher, also within the TTL window of the value stored before; a call
\* for a key that was stored and is within its TTL is still a hit after
\* another key was invalidated.
C9_InvalidateForcesFetch ==
    /\ (CallMade /\ lastCall.before.event = "invalidated") => ~lastCall.hit
    /\ (CallMade /\ lastCall.before.event = "stored" /\ lastCall.before.bystander
            /\ WithinTtl) => lastCall.hit

\* A call right after the invalidation of a value stored in the same tick
\* goes to the fetcher.
C9_Witness ==
    /\ CallMade
    /\ lastCall.before.event = "invalidated"
    /\ WithinTtl
    /\ ~lastCall.hit
    /\ \E i \in 1..Len(inflight) : inflight[i].key = lastCall.key

\* A call for one key is a hit after the other key was invalidated.
C9_OtherKeyWitness ==
    /\ CallMade
    /\ lastCall.before.event = "stored"
    /\ lastCall.before.bystander
    /\ lastCall.hit

-----------------------------------------------------------------------------
(* Properties of the presentation handlers *)

\* The handler run last issued a plugin mutation that returned success.
SuccessfulPluginRun ==
    /\ uiRun # NoRun
    /\ uiRun.called
    /\ uiRun.verb \in PluginVerbs
    /\ lastResult.kind = "returned"
    /\ lastResult.success

\* The handler invalidated the key, and did so before it called refetch().
InvalidatedBeforeReread(key) ==
    \E i \in 1..Len(uiRun.steps) :
        /\ uiRun.steps[i] = Inv(key)
        /\ \A j \in 1..i : uiRun.steps[j].step # "refetch"

\* C10: in every presentation handler, a successful plugin mutation
\* (install, uninstall, enable, disable, update, the all-scope batches)
\* invalidates both the installed-plugins key and the all-plugins key
\* before the handler triggers the re-read, so that neither key still holds
\* a stored value when the handler is through.
C10_BothKeysInvalidated ==
    SuccessfulPluginRun =>
        \A key \in {INSTALLED_PLUGINS, ALL_PLUGINS} :
            /\ InvalidatedBeforeReread(key)
            /\ cache[key].state # "stored"

\* The handler run last issued a marketplace mutation that returned success.
SuccessfulMarketplaceRun ==
    /\ uiRun # NoRun
    /\ uiRun.called
    /\ uiRun.verb \in MarketplaceVerbs
    /\ lastResult.kind = "returned"
    /\ lastResult.success

\* C11: in every presentation handler, a successful marketplace mutation
\* (add, remove, update of one marketplace, update of all) invalidates both
\* the marketplaces key and the all-plugins key before the handler triggers
\* the re-read, so that neither key still holds a stored value when the
\* handler is through.
C11_MarketplaceKeysInvalidated ==
    SuccessfulMarketplaceRun =>
        \A key \in {MARKETPLACES, ALL_PLUGINS} :
            /\ InvalidatedBeforeReread(key)
            /\ cache[key].state # "stored"

\* A marketplace was added while both keys held a stored value: both were
\* invalidated and the re-read of the marketplaces is in flight.
C11_Witness ==
    /\ SuccessfulMarketplaceRun
    /\ uiRun.handler = "handleSubmit"
    /\ \A key \in {MARKETPLACES, ALL_PLUGINS} :
            story[key].event = "invalidated" /\ story[key].at >= 0
    /\ \E i \in 1..Len(inflight) : inflight[i].key = MARKETPLACES

\* The handler run last is an uninstall handler (single- or all-scope).
UninstallRun == uiRun # NoRun /\ uiRun.verb = "uninstall"

\* A handler starts or ends: the step of the run it takes.
DeclinedUninstallStep ==
    /\ uiRun = NoRun
    /\ uiRun' # NoRun
    /\ uiRun'.verb = "uninstall"
    /\ ~uiRun'.confirmed

\* C12: at the presentation boundary every uninstall, single-scope or
\* all-scope, comes after a confirmation: the external uninstall is invoked
\* only in a run whose handler asked and whose user confirmed, and a
\* declined confirmation makes no external invocation, invalidates nothing
\* and re-reads nothing (the cache layer is left as it was).
C12_UninstallNeedsConfirmation ==
    /\ [](UninstallRun => (/\ uiRun.asked
                           /\ (execLog # <<>> \/ uiRun.called) => uiRun.confirmed
                           /\ ~uiRun.confirmed => (uiRun.steps = <<>> /\ execLog = <<>>)))
    /\ [][DeclinedUninstallStep => UNCHANGED <<execVars, cacheVars>>]_vars

\* The user dismissed the alert of an all-scope uninstall while values were
\* cached and a fetch was in flight.
C12_Witness ==
    /\ UninstallRun
    /\ uiRun.handler = "handleUninstallAll"
    /\ uiRun.asked
    /\ ~uiRun.confirmed
    /\ ~uiRun.called
    /\ cache[ALL_PLUGINS].state = "stored"
    /\ inflight # <<>>

\* An all-scope uninstall ran after the user confirmed.
C12_ConfirmedWitness ==
    /\ UninstallRun
    /\ uiRun.confirmed
    /\ Len(execLog) > 1
    /\ \A i \in 1..Len(execLog) : execLog[i].verb = "uninstall"

-----------------------------------------------------------------------------
(* Properties of the catalog engine: sources, installations, inventories *)

\* The one listing entry of the catalog run on one entry.
TheEntry == marketplacesFile.entries[1].manifest.plugins[1]

\* The catalog run on one entry has returned.
EntryDone ==
    /\ catalogPc = "done"
    /\ Len(marketplacesFile.entries) = 1
    /\ Len(marketplacesFile.entries[1].manifest.plugins) = 1

\* C13: a listing entry whose source is a structured external reference
\* (url, github or git object) is emitted as a Plugin with no component
\* inventory and no marketplacePath, whatever lies on disk; no directory
\* and no plugin manifest is read for it and the run does not throw (the
\* Plugin is in the result).
C13_ExternalSourceHasNoLocalData ==
    (EntryDone /\ TheEntry.source # "string") =>
        /\ Len(allPlugins) = 1
        /\ allPlugins[1].name = TheEntry.name
        /\ DOMAIN allPlugins[1].components = {}
        /\ allPlugins[1].marketplacePath = NoValue
        /\ allPlugins[1].reads = <<>>

\* A github entry for which a complete plugin directory lies on disk.
C13_Witness ==
    /\ EntryDone
    /\ TheEntry.source = "github"
    /\ TheEntry.dir.exists
    /\ TheEntry.dir.manifest = "ok"
    /\ TheEntry.dir.commands.state = "ok"
    /\ TheEntry.dir.skills.state = "ok"
    /\ Len(allPlugins) = 1

\* The i-th stored record with the id, in the order of the registry (0 when
\* there are fewer).
NthMatching(id, k) ==
    LET at == {i \in MatchingRecords(id) : Cardinality({j \in MatchingRecords(id) : j <= i}) = k}
    IN  IF at = {} THEN 0 ELSE CHOOSE i \in at : TRUE

\* C14: every installation of every Plugin of the catalog has a boolean
\* enabled: true for a stored record without the field, and the stored value
\* otherwise. A plugin with a user-scope record without the field and a
\* project-scope record with enabled: false has exactly two installations,
\* one enabled and one disabled.
C14_EnabledDefaultsToTrue ==
    catalogPc = "done" =>
        \A p \in 1..Len(allPlugins) :
            LET id    == ExpectedId(allPlugins[p].name, allPlugins[p].marketplace)
                insts == allPlugins[p].installations
            IN  /\ \A k \in 1..Len(insts) :
                      /\ insts[k].enabled \in BOOLEAN
                      /\ NthMatching(id, k) # 0
                      /\ LET stored == StoredRecords[NthMatching(id, k)].enabled
                         IN  /\ stored = NoValue  => insts[k].enabled = TRUE
                             /\ stored = "false" => insts[k].enabled = FALSE
                             /\ stored = "true"  => insts[k].enabled = TRUE
                /\ ( /\ Cardinality(MatchingRecords(id)) = 2
                     /\ StoredRecords[NthMatching(id, 1)].scope = "user"
                     /\ StoredRecords[NthMatching(id, 1)].enabled # "false"
                     /\ StoredRecords[NthMatching(id, 2)].scope = "project"
                     /\ StoredRecords[NthMatching(id, 2)].enabled = "false" )
                   => /\ Len(insts) = 2
                      /\ Cardinality({k \in 1..2 : insts[k].enabled}) = 1
                      /\ Cardinality({k \in 1..2 : ~insts[k].enabled}) = 1

\* A plugin installed at user scope without the enabled field and at project
\* scope with enabled: false: two installations, the first enabled.
C14_Witness ==
    /\ catalogPc = "done"
    /\ \E p \in 1..Len(allPlugins) :
          LET insts == allPlugins[p].installations
          IN  /\ Len(insts) = 2
              /\ insts[1].scope = "user" /\ insts[1].enabled
              /\ insts[2].scope = "project" /\ ~insts[2].enabled
              /\ \E i \in 1..Len(StoredRecords) :
                    StoredRecords[i].scope = "user" /\ StoredRecords[i].enabled = NoValue

\* C15: the list returned by getAllAvailablePlugins holds no two Plugins
\* with the same identity trim(name) + "@" + trim(marketplace).
C15_NoDuplicateIdentity ==
    catalogPc = "done" =>
        \A i, j \in 1..Len(allPlugins) :
            ExpectedId(allPlugins[i].name, allPlugins[i].marketplace)
                = ExpectedId(allPlugins[j].name, allPlugins[j].marketplace)
            => i = j

\* One listing names a plugin twice, once with surrounding whitespace, and
\* the result holds both, each with the installations of the one identity.
C15_Witness ==
    /\ catalogPc = "done"
    /\ Len(allPlugins) = 2
    /\ allPlugins[1].name # allPlugins[2].name
    /\ allPlugins[1].marketplace = allPlugins[2].marketplace
    /\ Trim(allPlugins[1].name) = Trim(allPlugins[2].name)
    /\ allPlugins[1].installations = allPlugins[2].installations
    /\ allPlugins[1].installations # <<>>

-----------------------------------------------------------------------------
(* Properties of tool discovery *)

\* No working external tool was found for the last operation: discovery
\* ended without a path, or the shell did not find the command it was given.
ToolNotFound ==
    /\ lastOp # NoOp
    /\ \/ lastOp.op = "probing" /\ cachedClaudePath = NullPath
       \/ \E i \in 1..Len(execLog) : execLog[i].outcome.text = "command not found"

\* C16: when no working external tool can be found, the operation ends with
\* an error of the distinct type ClaudeNotInstalledError, not with the
\* CLIResult of an ordinary failed invocation.
C16_NotFoundIsDistinctError ==
    ToolNotFound =>
        /\ lastResult.kind = "thrown"
        /\ lastResult.error = "ClaudeNotInstalledError"

\* No path is configured, the shell does not find "claude", and the
\* operation returns the CLIResult of a failed invocation.
C16_Witness ==
    /\ ToolNotFound
    /\ lastOp.op = "single"
    /\ claudeCommandPath = NullPath
    /\ execLog[1].command = <<"claude">>
    /\ lastResult.kind = "returned"
    /\ ~lastResult.success
    /\ lastResult.hasError

\* The command that the preference value calls for: the value without its
\* surrounding whitespace and with a leading "~" replaced by the home
\* directory, or the bare command name when there is no usable value.
ConfiguredCommand(path) ==
    IF path \in {NeverInitialised, NoName} THEN <<"claude">>
    ELSE LET t == Trim(path)
         IN  IF t = <<>> THEN <<"claude">>
             ELSE IF Head(t) = "~" THEN HomeDir \o Tail(t)
             ELSE t

\* C17: every external invocation of the executor uses the path last
\* passed to initClaudePath, trimmed and with a leading ~ expanded, when
\* that path is not blank; it uses the bare command "claude" when the path
\* was undefined, empty or whitespace, and before any initClaudePath call.
C17_ConfiguredPathWins ==
    (lastOp # NoOp /\ lastOp.op \in {"single", "batch"}) =>
        \A i \in 1..Len(execLog) :
            /\ execLog[i].command = ConfiguredCommand(claudePath)
            /\ execLog[i].command # <<>>
            /\ Head(execLog[i].command) \notin WhiteSpace \cup {"~"}

\* A path given as "~/c" is configured and an operation runs "/h/c".
C17_Witness ==
    /\ lastOp # NoOp
    /\ claudePath = <<"~", "/", "c">>
    /\ execLog # <<>>
    /\ execLog[1].command = HomeDir \o <<"/", "c">>

\* A whitespace-only path is configured and a batch runs "claude".
C17_BlankWitness ==
    /\ lastOp # NoOp
    /\ lastOp.op = "batch"
    /\ claudePath = <<" ">>
    /\ Len(execLog) > 1
    /\ \A i \in 1..Len(execLog) : execLog[i].command = <<"claude">>

\* The skills directory of the one entry, and the inventory made of it.
TheSkillsDir == TheEntry.dir.skills

TheSkills == allPlugins[1].components.skills

\* The plugin of the one entry has component inventories: its source is a
\* path to a directory with a readable plugin manifest.
EntryHasInventories ==
    /\ EntryDone
    /\ TheEntry.source = "string"
    /\ TheEntry.dir.exists
    /\ TheEntry.dir.manifest = "ok"
    /\ Len(allPlugins) = 1

\* What one entry of a skills directory contributes: a subdirectory with a
\* descriptor gives the declared name, or its own name when none (or an
\* empty one) is declared; a flat .md or .sh file gives its name without
\* the extension; everything else gives nothing.
Contribution(e) ==
    IF e.type = "dir"
    THEN IF e.skillMd.state = "missing" THEN <<>>
         ELSE IF e.skillMd.declares \in {NoName, <<>>} THEN <<e.name>>
         ELSE <<e.skillMd.declares>>
    ELSE IF e.type = "file" /\ (EndsWith(e.name, MdExt) \/ EndsWith(e.name, ShExt))
    THEN <<SubSeq(e.name, 1, Len(e.name) - 3)>>
    ELSE <<>>

RECURSIVE Contributions(_)
Contributions(entries) ==
    IF entries = <<>> THEN <<>>
    ELSE Contribution(Head(entries)) \o Contributions(Tail(entries))

\* Every descriptor of the directory can be read and keeps its keys at the
\* top level of the front-matter.
PlainDescriptors(dir) ==
    \A i \in 1..Len(dir.entries) :
        LET md == dir.entries[i].skillMd
        IN  /\ md.state # "unreadable"
            /\ \A l \in 1..Len(md.lines) : md.lines[l] = TrimStart(md.lines[l])

\* C18: the skills inventory of a readable skills directory holds, in
\* directory order, one name per subdirectory with a descriptor (the name
\* its front-matter declares, else the subdirectory's name) and one name
\* per flat .md or .sh file (the file name without extension), nothing for
\* anything else, and count is the length of names. The directory with a
\* descriptor declaring a name and one flat .md file yields exactly the
\* declared name and the file's base name.
C18_SkillInventory ==
    (EntryHasInventories /\ TheSkillsDir.state = "ok") =>
        /\ TheSkills.names = Contributions(TheSkillsDir.entries)
        /\ TheSkills.count = Len(TheSkills.names)
        /\ TheSkillsDir = ExampleSkillsDir => TheSkills.names = << <<"k">>, <<"f">> >>

\* The same, for directories whose descriptors are all readable and flat.
C18_PlainDescriptorInventory ==
    (EntryHasInventories /\ TheSkillsDir.state = "ok" /\ PlainDescriptors(TheSkillsDir)) =>
        /\ TheSkills.names = Contributions(TheSkillsDir.entries)
        /\ TheSkills.count = Len(TheSkills.names)
        /\ TheSkillsDir = ExampleSkillsDir => TheSkills.names = << <<"k">>, <<"f">> >>

\* A flat skill file stands beside a subdirectory whose descriptor exists
\* but cannot be read, and the inventory is empty.
C18_Witness ==
    /\ EntryHasInventories
    /\ TheSkillsDir.state = "ok"
    /\ Len(TheSkillsDir.entries) = 2
    /\ TheSkillsDir.entries[1].type = "file"
    /\ TheSkillsDir.entries[1].name = <<"f", ".", "m", "d">>
    /\ TheSkillsDir.entries[2].type = "dir"
    /\ TheSkillsDir.entries[2].skillMd.state = "unreadable"
    /\ TheSkills = [count |-> 0, names |-> <<>>]

\* The directory of the example: the declared name, then the flat file.
C18_ExampleWitness ==
    /\ EntryHasInventories
    /\ TheSkillsDir = ExampleSkillsDir
    /\ TheSkills = [count |-> 2, names |-> << <<"k">>, <<"f">> >>]

\* A descriptor declares its name at the top level and a name under another
\* key, and the inventory holds the nested one.
C18_NestedKeyWitness ==
    /\ EntryHasInventories
    /\ TheSkillsDir.state = "ok"
    /\ Len(TheSkillsDir.entries) = 1
    /\ TheSkillsDir.entries[1].skillMd.declares = <<"k">>
    /\ TheSkills.names = << <<"j">> >>

\* C19: a missing or unparsable registry file gives an empty list from its
\* reader and the catalog build still returns: without a readable
\* marketplace registry the catalog is empty; without a readable
\* installed-plugin registry every entry of every readable, well-formed
\* listing is emitted, in order, with an empty installations list.
C19_UnreadableRegistryIsEmpty ==
    catalogPc = "done" =>
        /\ installedFile.status \in {"missing", "unparsable"} =>
              /\ installedResult = <<>>
              /\ \A k \in 1..Len(allPlugins) : allPlugins[k].installations = <<>>
              /\ \A mi \in 1..Len(RegisteredMarkets) :
                    LET m == RegisteredMarkets[mi] IN
                    (ReadableListing(m) /\ WellFormed(m)) =>
                        /\ Len(PluginsOf(m)) = Len(m.manifest.plugins)
                        /\ \A e \in 1..Len(m.manifest.plugins) :
                              PluginsOf(m)[e].name = m.manifest.plugins[e].name
        /\ marketplacesFile.status \in {"missing", "unparsable"} =>
              /\ allPlugins = <<>>
              /\ installedResult = StoredRecords

\* The installed-plugin registry does not parse, and the two entries of a
\* readable listing are emitted without installations.
C19_Witness ==
    /\ catalogPc = "done"
    /\ installedFile.status = "unparsable"
    /\ Len(RegisteredMarkets) = 1
    /\ ReadableListing(RegisteredMarkets[1])
    /\ Len(RegisteredMarkets[1].manifest.plugins) = 2
    /\ Len(allPlugins) = 2
    /\ \A k \in 1..2 : allPlugins[k].installations = <<>>

\* The marketplace registry is missing while plugins are installed.
C19_NoMarketplacesWitness ==
    /\ catalogPc = "done"
    /\ marketplacesFile.status = "missing"
    /\ Len(installedResult) = 2
    /\ allPlugins = <<>>

-----------------------------------------------------------------------------
(* Properties of the batch loop *)

BatchRunning == batchRun # NoBatch

BatchReturned == BatchRunning /\ lastResult # NoResult

\* C20: a multi-scope batch makes exactly one external invocation per
\* installation record, started in the order of the installations list, at
\* most one child running at any time and each started only when the one
\* before it has exited (with success or failure); a failed invocation does
\* not keep the records after it from being invoked.
C20_BatchIsSequential ==
    BatchRunning =>
        /\ Cardinality(batchRun.running) <= 1
        /\ batchRun.started = [k \in 1..Len(batchRun.started) |-> k]
        /\ Len(batchRun.started) <= Len(lastOp.installations)
        /\ Len(execLog) = Len(batchRun.started) - Cardinality(batchRun.running)
        /\ \A k \in 1..Len(execLog) :
              /\ execLog[k].scope = lastOp.installations[k].scope
              /\ execLog[k].verb = lastOp.verb
        /\ batchRun.running \subseteq {Len(batchRun.started)}
        /\ BatchReturned =>
              /\ Len(batchRun.started) = Len(lastOp.installations)
              /\ Len(execLog) = Len(lastOp.installations)
              /\ batchRun.running = {}

\* The first of three invocations failed; the second has exited and the
\* third is running alone.
C20_Witness ==
    /\ BatchRunning
    /\ Len(lastOp.installations) = 3
    /\ batchRun.running = {3}
    /\ Len(execLog) = 2
    /\ ~execLog[1].outcome.ok
    /\ execLog[2].outcome.ok

\* A batch of three returned after its first two invocations failed.
C20_ReturnedWitness ==
    /\ BatchReturned
    /\ Len(execLog) = 3
    /\ ~execLog[1].outcome.ok
    /\ ~execLog[2].outcome.ok
    /\ execLog[3].outcome.ok
    /\ lastResult.success

-----------------------------------------------------------------------------
(* Properties of the catalog engine: failures, order, visibility *)

\* C21: the catalog build returns, and a marketplace whose processing fails
\* part-way (a listing entry without a name) contributes no Plugin at all,
\* not even for the entries before the failing one, while every other
\* marketplace with a well-formed listing contributes one Plugin per entry.
C21_FailedMarketplaceSkipped ==
    catalogPc = "done" =>
        \A mi \in 1..Len(RegisteredMarkets) :
            LET m == RegisteredMarkets[mi] IN
            /\ (ReadableListing(m) /\ ~WellFormed(m)) => PluginsOf(m) = <<>>
            /\ (ReadableListing(m) /\ WellFormed(m)) =>
                  Len(PluginsOf(m)) = Len(m.manifest.plugins)

\* A listing holds a named entry and then an entry without a name: the
\* Plugin of the first entry is in the result.
C21_Witness ==
    /\ catalogPc = "done"
    /\ Len(RegisteredMarkets) = 1
    /\ ReadableListing(RegisteredMarkets[1])
    /\ Len(RegisteredMarkets[1].manifest.plugins) = 2
    /\ RegisteredMarkets[1].manifest.plugins[1].name # NoName
    /\ RegisteredMarkets[1].manifest.plugins[2].name = NoName
    /\ Len(allPlugins) = 1
    /\ allPlugins[1].name = RegisteredMarkets[1].manifest.plugins[1].name

\* The (name, marketplace) pairs of the listing entries of the registered
\* marketplaces with a readable listing, in registry order and then in
\* listing order.
RECURSIVE ListedPairs(_)
ListedPairs(markets) ==
    IF markets = <<>> THEN <<>>
    ELSE LET m == Head(markets)
         IN  (IF ReadableListing(m)
              THEN [e \in 1..Len(m.manifest.plugins) |->
                       [name |-> m.manifest.plugins[e].name, marketplace |-> m.name]]
              ELSE <<>>)
             \o ListedPairs(Tail(markets))

AllWellFormed ==
    \A mi \in 1..Len(RegisteredMarkets) :
        ReadableListing(RegisteredMarkets[mi]) => WellFormed(RegisteredMarkets[mi])

\* C22: the catalog holds exactly one Plugin per listing entry of each
\* registered marketplace with a readable listing, in registry order and
\* then listing order, unsorted; an entry without a matching installation
\* record is emitted all the same, with an empty installations list.
C22_OnePluginPerEntryInOrder ==
    (catalogPc = "done" /\ AllWellFormed) =>
        /\ Len(allPlugins) = Len(ListedPairs(RegisteredMarkets))
        /\ \A k \in 1..Len(allPlugins) :
              /\ allPlugins[k].name = ListedPairs(RegisteredMarkets)[k].name
              /\ allPlugins[k].marketplace = ListedPairs(RegisteredMarkets)[k].marketplace
              /\ MatchingRecords(ExpectedId(allPlugins[k].name, allPlugins[k].marketplace)) = {}
                    => allPlugins[k].installations = <<>>

\* Two marketplaces, the first listing "b" before "a": the catalog keeps
\* that order, and a plugin without installation stands beside one with.
C22_Witness ==
    /\ catalogPc = "done"
    /\ Len(RegisteredMarkets) = 2
    /\ Len(allPlugins) >= 3
    /\ allPlugins[1].name = <<"b">>
    /\ allPlugins[2].name = <<"a">>
    /\ allPlugins[1].marketplace = RegisteredMarkets[1].name
    /\ allPlugins[3].marketplace = RegisteredMarkets[2].name
    /\ allPlugins[1].installations = <<>>
    /\ allPlugins[2].installations # <<>>

\* The stored record i names no listing entry of a registered marketplace:
\* its marketplace is not registered, or the listing does not hold the plugin.
Orphan(i) ==
    \A k \in 1..Len(ListedPairs(RegisteredMarkets)) :
        LET pair == ListedPairs(RegisteredMarkets)[k]
        IN  ExpectedId(pair.name, pair.marketplace) # StoredRecords[i].pluginId

\* C23: an installation record whose pluginId names a marketplace that is
\* not registered, or a plugin that its marketplace does not list, gives no
\* Plugin and is in no Plugin's installations (each Plugin carries the
\* records of its own identity and nothing else), while getInstalledPlugins
\* still returns the record.
C23_OrphanRecordInvisible ==
    catalogPc = "done" =>
        \A i \in 1..Len(StoredRecords) :
            Orphan(i) =>
                /\ Len(installedResult) >= i
                /\ installedResult[i] = StoredRecords[i]
                /\ \A k \in 1..Len(allPlugins) :
                      LET id == ExpectedId(allPlugins[k].name, allPlugins[k].marketplace)
                      IN  /\ id # StoredRecords[i].pluginId
                          /\ ExactlyTheRecords(allPlugins[k].installations, id)
                          /\ i \notin MatchingRecords(id)

\* The record b@n is stored, the marketplace n is not registered, and the
\* plugin b of another marketplace is emitted without installations.
C23_Witness ==
    /\ catalogPc = "done"
    /\ \E i \in 1..Len(StoredRecords) :
          /\ StoredRecords[i].pluginId = <<"b", "@", "n">>
          /\ Orphan(i)
          /\ installedResult[i].scope = "local"
    /\ \A mi \in 1..Len(RegisteredMarkets) : RegisteredMarkets[mi].name # <<"n">>
    /\ \E k \in 1..Len(allPlugins) :
          allPlugins[k].name = <<"b">> /\ allPlugins[k].installations = <<>>

\* The listing gives the field a value (a missing field and an empty string
\* give none).
Provided(v) == v \notin {NoName, <<>>}

\* The manifest of the one entry was read: the source is a path to a
\* directory with a readable plugin.json.
ManifestRead ==
    /\ TheEntry.source = "string"
    /\ TheEntry.dir.exists
    /\ TheEntry.dir.manifest = "ok"

\* What the manifest says about a field, or nothing when it was not read.
ManifestSays(field) == IF ManifestRead THEN TheEntry.dir.meta[field] ELSE NoName

C24_DefaultsWitness ==
    /\ EntryDone
    /\ Len(allPlugins) = 1
    /\ ~ManifestRead
    /\ TheEntry.listed = BareListing
    /\ allPlugins[1].version = <<"unknown">>
    /\ allPlugins[1].description = <<>>
    /\ allPlugins[1].author = NoName

-----------------------------------------------------------------------------
(* Properties of the TTL cache layer: misses and in-flight fetches *)

\* The call found nothing usable under its key: no entry, an entry that
\* does not deserialize, or an envelope aged ttl or more.
NothingFresh ==
    \/ lastCall.stored \in {"absent", "garbage"}
    \/ /\ lastCall.stored = "stored"
       /\ lastCall.at - lastCall.before.at >= lastCall.ttl

\* A fetch completes in this step.
FetchCompletes == Len(inflight') < Len(inflight)

\* C25: a getCachedData call that finds no entry, an entry that cannot be
\* deserialized, or an envelope aged ttl or more (exactly ttl included)
\* invokes the fetcher; when the fetch completes, the envelope of the
\* fetched value with timestamp = now is stored under the key; a call is a
\* hit exactly when an envelope younger than ttl is stored, and then
\* returns that envelope's value.
C25_MissFetchesAndStores ==
    /\ [](CallMade =>
            /\ NothingFresh =>
                  /\ ~lastCall.hit
                  /\ \E i \in 1..Len(inflight) :
                        /\ inflight[i].key = lastCall.key
                        /\ inflight[i].value = dataVersion
            /\ lastCall.hit =>
                  /\ ~NothingFresh
                  /\ lastCall.value = lastCall.before.value
                  /\ cache[lastCall.key] = Envelope(lastCall.value, lastCall.before.at))
    /\ [][FetchCompletes =>
            \E i \in 1..Len(inflight) :
                /\ cache'[inflight[i].key] = Envelope(inflight[i].value, now)
                /\ \A k \in CACHE_KEYS \ {inflight[i].key} : cache'[k] = cache[k]]_vars

\* A call made exactly ttl after the store goes to the fetcher.
C25_Witness ==
    /\ CallMade
    /\ lastCall.stored = "stored"
    /\ lastCall.at - lastCall.before.at = lastCall.ttl
    /\ ~lastCall.hit
    /\ inflight # <<>>

\* A call that found a string that does not parse goes to the fetcher.
C25_GarbageWitness ==
    /\ CallMade
    /\ lastCall.stored = "garbage"
    /\ ~lastCall.hit
    /\ inflight # <<>>

\* A value fetched for a key that held garbage is stored and hit.
C25_HitAfterMissWitness ==
    /\ CallMade
    /\ lastCall.hit
    /\ lastCall.before.event = "stored"
    /\ lastCall.at > lastCall.before.at

-----------------------------------------------------------------------------
(* Properties of tool discovery by probing *)

\* The candidates that are probed, in their fixed order.
Candidates == SelectSeq(CLAUDE_PATHS, LAMBDA c : ~Includes(c, "*"))

\* An operation of the probing executor is called in this step.
ProbingStep == lastOp = NoOp /\ lastOp' # NoOp /\ lastOp'.op = "probing"

\* The version checks of the last search, without the `which` fallback.
VersionChecks == SelectSeq(probeLog, LAMBDA c : c # <<"which claude">>)

\* C26: the search probes the candidate locations in their fixed order and
\* stops at the first whose version check succeeds, which becomes the
\* memoized path; it runs on the first call only: every later call leaves
\* the memoized result as it is and probes nothing.
C26_FirstWorkingCandidateMemoized ==
    /\ [](/\ Len(VersionChecks) <= Len(Candidates)
          /\ \A i \in 1..Len(VersionChecks) : VersionChecks[i] = Candidates[i]
          /\ \A i \in 1..(Len(VersionChecks) - 1) : VersionChecks[i] \notin workingPaths
          /\ (probeLog # <<>> /\ \E i \in 1..Len(Candidates) : Candidates[i] \in workingPaths) =>
                /\ cachedClaudePath = VersionChecks[Len(VersionChecks)]
                /\ cachedClaudePath \in workingPaths
                /\ VersionChecks = probeLog
          /\ (probeLog # <<>> /\ \A i \in 1..Len(Candidates) : Candidates[i] \notin workingPaths) =>
                /\ VersionChecks = Candidates
                /\ probeLog = Append(Candidates, <<"which claude">>))
    /\ [][(ProbingStep /\ cachedClaudePath # Unset) =>
              (cachedClaudePath' = cachedClaudePath /\ probeLog' = <<>>)]_vars
    /\ [][(ProbingStep /\ cachedClaudePath = Unset) =>
              (cachedClaudePath' # Unset /\ probeLog' # <<>>)]_vars

\* The third candidate is the first that works although the fifth works
\* too: three probes were made and the third is memoized.
C26_Witness ==
    /\ lastOp # NoOp
    /\ lastOp.op = "probing"
    /\ Len(probeLog) = 3
    /\ cachedClaudePath = Candidates[3]
    /\ Candidates[5] \in workingPaths
    /\ execLog # <<>>
    /\ execLog[1].command = Candidates[3]

\* A later operation runs with the memoized path and without a probe.
C26_ReuseWitness ==
    /\ lastOp # NoOp
    /\ lastOp.op = "probing"
    /\ probeLog = <<>>
    /\ cachedClaudePath = Candidates[2]
    /\ execLog[1].command = Candidates[2]

\* A fetch that was in flight when its key was invalidated completes in
\* this step.
OvertakenFetchCompletes(i) ==
    /\ i \in 1..Len(inflight)
    /\ inflight[i].overtaken
    /\ inflight' = [j \in 1..(Len(inflight) - 1) |->
                        IF j < i THEN inflight[j] ELSE inflight[j + 1]]

\* C27: a fetch that was in flight when invalidateCache(key) returned does
\* not repopulate the key when it completes, so that no getCachedData(key)
\* call started after the invalidation is served a value fetched before it.
C27_NoStaleRepopulation ==
    [][\A i \in 1..Len(inflight) :
          OvertakenFetchCompletes(i) => cache'[inflight[i].key].state # "stored"]_vars

\* A fetch is in flight with a value read before its key was invalidated,
\* the data on disk has changed since, and the key is empty.
C27_Witness ==
    \E i \in 1..Len(inflight) :
        /\ inflight[i].overtaken
        /\ inflight[i].value # dataVersion
        /\ story[inflight[i].key].event = "invalidated"
        /\ cache[inflight[i].key].state = "absent"

-----------------------------------------------------------------------------
(* Properties of the mutation executor: results *)

\* C28: a multi-scope batch called with an empty installations list makes
\* no external invocation and returns success = false with an empty output
\* and an empty error text.
C28_EmptyBatchFails ==
    (IsBatch /\ lastOp.installations = <<>>) =>
        /\ execLog = <<>>
        /\ lastResult.kind = "returned"
        /\ ~lastResult.success
        /\ lastResult.output = <<>>
        /\ lastResult.hasError
        /\ lastResult.error = <<>>

\* uninstallPluginAllScopes was called with no installation.
C28_Witness ==
    /\ IsBatch
    /\ lastOp.verb = "uninstall"
    /\ lastOp.installations = <<>>
    /\ execLog = <<>>
    /\ ~lastResult.success

\* C29: every CLIResult returned by an executor operation, single-scope,
\* batch or marketplace, has an error field exactly when its success flag
\* is false; a batch with both outcomes returns success = true without an
\* error field and names its failures inside output only.
C29_ErrorIffNotSuccess ==
    (lastOp # NoOp /\ lastResult.kind = "returned") =>
        /\ lastResult.hasError <=> ~lastResult.success
        /\ ~lastResult.hasError => lastResult.error = <<>>
        /\ (IsBatch /\ SucceededCalls # {} /\ FailedCalls # {}) =>
              /\ lastResult.success
              /\ ~lastResult.hasError
              /\ \A i \in FailedCalls :
                    \E k \in 1..Len(lastResult.output) :
                        lastResult.output[k] = execLog[i].outcome.text

\* A batch in which the first scope failed and the second succeeded.
C29_Witness ==
    /\ IsBatch
    /\ Len(execLog) = 2
    /\ ~execLog[1].outcome.ok
    /\ execLog[2].outcome.ok
    /\ lastResult.success
    /\ ~lastResult.hasError

\* updateMarketplace failed with stderr and stdout: output keeps the
\* stdout and the error field is there.
C29_MarketplaceWitness ==
    /\ IsSingle
    /\ lastOp.verb = "marketplace update"
    /\ ~lastResult.success
    /\ lastResult.hasError
    /\ lastResult.output # <<>>

-----------------------------------------------------------------------------
(* Properties of the presentation handlers: failed mutations *)

\* The handler run last called the executor and got no success back: a
\* CLIResult with success = false, or a rejection.
FailedRun ==
    /\ uiRun # NoRun
    /\ uiRun.called
    /\ ~(lastResult.kind = "returned" /\ lastResult.success)

\* A handler runs and its mutation fails: the step of the run it takes.
FailedHandlerStep ==
    /\ uiRun = NoRun
    /\ uiRun' # NoRun
    /\ uiRun'.called
    /\ ~(lastResult'.kind = "returned" /\ lastResult'.success)

C30_SubmitWitness ==
    /\ FailedRun
    /\ uiRun.handler = "handleSubmit"
    /\ ~lastResult.success
    /\ cache[MARKETPLACES].state = "stored"

\* An all-scope batch in which every scope failed.
C30_BatchWitness ==
    /\ FailedRun
    /\ Len(execLog) > 1
    /\ ~lastResult.success
    /\ cache[INSTALLED_PLUGINS].state = "stored"

====
